---- MODULE Spec2Model ----
(***************************************************************************)
(* A model of ruche: the node registry, the id allocator, the deletion     *)
(* ledger and the request handlers that drive them (create, get, list,     *)
(* request-deletion, confirmed delete, bulk start/stop/recreate).          *)
(*                                                                         *)
(* A request is a task on the tokio scheduler.  It is suspended at every   *)
(* .await; one action of the model is the effect of one awaited call       *)
(* together with the synchronous code that follows it up to the next       *)
(* .await.  Requests in flight are kept in a bag, so that two requests at  *)
(* the same position are interchangeable.                                  *)
(***************************************************************************)
EXTENDS Integers, Sequences, FiniteSets, Bags, TLC

(***************************************************************************)
(* Program constants.                                                      *)
(***************************************************************************)
\* ensure_capacity: `if count >= 99`
Capacity == 99
\* get_new_bee_id: `(1..99).collect::<Vec<u8>>()`, a half-open range
IdRangeEnd == 99
\* delete_bee handler: `duration < Duration::from_secs(30)`
ConfirmWindow == 30

(***************************************************************************)
(* Bounds of the model.                                                    *)
(***************************************************************************)
\* config.storage.parent_dir_capacity of the modelled configuration
ParentDirCapacity == 4
\* requests that may be in flight at once
MaxInFlight == 2
\* nodes of one run: a create request is issued while the records and the
\* creates in flight are fewer than MaxBees
MaxBees == 2
\* the clock advances in steps of TickStep seconds, up to MaxTime
TickStep == 15
MaxTime == 30
\* node ids the clients name in get / request-deletion / delete requests
MaxReqId == 2
\* records the store holds when the service starts (Spec)
MaxInitBees == 1
\* SpecAll: records the store holds when the service starts, and the bound
\* under which a create request is issued
MaxBulkInitBees == 2
MaxBulkBees == 1
\* create requests in flight at once in SpecProvision
MaxProvisioning == 3
\* SpecRegistry: the ids of the records added to the two backends, and the
\* number of records a backend holds
MaxRegistryId == 3
MaxRegistryLen == 4
\* SpecLock: registry calls running at once, and records the store holds
MaxLockCalls == 2
MaxLockBees == 2
\* SpecResolve: the longest template drawn from TemplateChars, and the
\* largest parent_dir_capacity
MaxTemplateLen == 3
MaxDirCapacity == 4
\* SpecStorage: create_node_dir calls running at once
MaxStorageCalls == 2

ReqIds == 1..MaxReqId
Neighborhoods == {"nbh_a"}

VARIABLES
    config,      \* BeeService.config: templates, capacity and root path
    bees,        \* the "bees" collection of the store, in insertion order
    queue,       \* MockDbService.db, the VecDeque of the test double
    dirs,        \* node directories that exist on disk (node ids)
    disk,        \* SpecStorage: the directories under the root, path -> mode
    containers,  \* containers the runtime holds (node ids, named node_<id>)
    started,     \* the containers among them that have been started
    ledger,      \* last_bee_deletion_req: id -> time of the request
    now,         \* SystemTime::now(), in seconds
    reqs,        \* bag of the requests in flight
    resp         \* the response this step sent, if it sent one

vars == <<config, bees, queue, dirs, disk, containers, started, ledger, now, reqs, resp>>

(***************************************************************************)
(* Results: Ok(v) and Err(e).                                              *)
(***************************************************************************)
Ok(v) == [ok |-> TRUE, val |-> v]
Err(e) == [ok |-> FALSE, val |-> e]

(***************************************************************************)
(* Naming and path derivation.                                             *)
(***************************************************************************)
\* ((bee_id - 1) / parent_dir_capacity) + 1, on u8
get_dir_id(bee_id) == (((bee_id - 1) % 256) \div ParentDirCapacity) + 1

\* root / parent directory of the node / node_<id>
get_node_path(bee_id) == <<"root", get_dir_id(bee_id), bee_id>>

\* BeeData as new_bee_data builds it
new_bee_data(id, neighborhood, data_dir) ==
    [id |-> id, neighborhood |-> neighborhood, data_dir |-> data_dir]

(***************************************************************************)
(* Templates, ports and paths, character by character.  A String or a     *)
(* PathBuf is the sequence of its characters.                              *)
(***************************************************************************)
Digits == <<"0", "1", "2", "3", "4", "5", "6", "7", "8", "9">>

Str_node_ == <<"n", "o", "d", "e", "_">>

\* \d and [\w-] of the regex crate, on the characters the model uses
IsDigit(c) == \E i \in 1..10 : Digits[i] = c

IsWordOrDash(c) ==
    \/ IsDigit(c)
    \/ c \in {"_", "-", "a", "d", "e", "m", "n", "o", "r", "s", "t", "w", "x"}

\* a formatter that keeps the last digit of the id only
format_id_units(id) == <<"0", Digits[(id % 10) + 1]>>

\* format!("{:02}", id) for a u8: at least two digits, zero padded
format_id(id) ==
    IF id < 10 THEN <<"0", Digits[id + 1]>>
    ELSE IF id < 100 THEN <<Digits[(id \div 10) + 1], Digits[(id % 10) + 1]>>
    ELSE <<Digits[(id \div 100) + 1], Digits[((id \div 10) % 10) + 1],
           Digits[(id % 10) + 1]>>

\* format!("node_{}", format_id(id))
get_node_name(id) == Str_node_ \o format_id(id)

\* str::replace("xx", to): every non-overlapping match, from the left
RECURSIVE replace_xx(_, _)
replace_xx(str, to) ==
    IF Len(str) < 2 THEN str
    ELSE IF str[1] = "x" /\ str[2] = "x"
         THEN to \o replace_xx(SubSeq(str, 3, Len(str)), to)
         ELSE <<str[1]>> \o replace_xx(Tail(str), to)

\* a pattern with no bound on the number of digits
PORT_REGEX_any_length(str) ==
    /\ Len(str) >= 3
    /\ str[Len(str) - 1] = "x" /\ str[Len(str)] = "x"
    /\ \A i \in 1..(Len(str) - 2) : IsDigit(str[i])

\* PORT_REGEX ^\d{1,3}xx$
PORT_REGEX(str) ==
    /\ Len(str) \in 3..5
    /\ str[Len(str) - 1] = "x" /\ str[Len(str)] = "x"
    /\ \A i \in 1..(Len(str) - 2) : IsDigit(str[i])

\* VOLUME_NAME_REGEX ^([\w-]+)*[^x]?xx$: before the final xx, characters
\* of [\w-] and then at most one character that is not x; x is itself of
\* [\w-], so the last character before the final xx may be any character
VOLUME_NAME_REGEX(str) ==
    /\ Len(str) >= 2
    /\ str[Len(str) - 1] = "x" /\ str[Len(str)] = "x"
    /\ \A i \in 1..(Len(str) - 3) : IsWordOrDash(str[i])

get_port(id, base_port) ==
    IF ~PORT_REGEX(base_port) THEN Err("invalid_template")
    ELSE Ok(replace_xx(base_port, format_id(id)))

get_api_port(cfg, id) == get_port(id, cfg.api_port)

get_p2p_port(cfg, id) == get_port(id, cfg.p2p_port)

\* an index computed from the id itself
get_dir_id_in_zero_based(cfg, bee_id) ==
    (((bee_id % 256) \div cfg.parent_dir_capacity) + 1) % 256

\* ((bee_id - 1) / parent_dir_capacity) + 1, on u8
get_dir_id_in(cfg, bee_id) ==
    ((((bee_id - 1) % 256) \div cfg.parent_dir_capacity) + 1) % 256

get_parent_dir_name(cfg, bee_id) ==
    IF ~VOLUME_NAME_REGEX(cfg.parent_dir_format) THEN Err("invalid_template")
    ELSE Ok(replace_xx(cfg.parent_dir_format,
                       format_id(get_dir_id_in(cfg, bee_id))))

\* Path::join: an absolute path replaces the base, otherwise it is appended
\* after a separator
join(base, path) ==
    IF path # <<>> /\ path[1] = "/" THEN path
    ELSE IF base = <<>> \/ base[Len(base)] = "/" THEN base \o path
    ELSE base \o <<"/">> \o path

get_node_path_in(cfg, bee_id) ==
    LET parent_name == get_parent_dir_name(cfg, bee_id)
    IN  IF ~parent_name.ok THEN parent_name
        ELSE Ok(join(join(cfg.root_path, parent_name.val),
                     get_node_name(bee_id)))

\* the configuration of the running service: Config::parse has checked both
\* port templates and the directory template against their patterns
ParsedConfig ==
    [api_port |-> <<"1", "7", "x", "x">>,
     p2p_port |-> <<"1", "8", "x", "x">>,
     parent_dir_format |-> <<"s", "w", "a", "r", "m", "_", "x", "x">>,
     parent_dir_capacity |-> ParentDirCapacity,
     root_path |-> <<"/", "m">>]

(***************************************************************************)
(* The registry backend (impl BeeDatabase for Database).                   *)
(***************************************************************************)
\* insert_one: nothing is deduplicated
db_add_bee(col, bee) == Append(col, bee)

\* count_documents
db_count_bees(col) == Len(col)

\* find_one({"id": bee_id}): the first matching document, or None
db_get_bee(col, bee_id) ==
    LET hits == {i \in 1..Len(col) : col[i].id = bee_id}
    IN  IF hits = {} THEN [some |-> FALSE, val |-> 0]
        ELSE [some |-> TRUE,
              val |-> col[CHOOSE i \in hits : \A j \in hits : i <= j]]

\* ascending by id
SortById(col) == SortSeq(col, LAMBDA a, b : a.id < b.id)

\* find({}).sort({"id": 1})
db_get_bees(col) == SortById(col)

\* delete_one({"id": bee_id}): the first matching document is removed, and
\* a missing id is no error
db_delete_bee(col, bee_id) ==
    LET hits == {i \in 1..Len(col) : col[i].id = bee_id}
    IN  IF hits = {} THEN col
        ELSE LET k == CHOOSE i \in hits : \A j \in hits : i <= j
             IN  SubSeq(col, 1, k - 1) \o SubSeq(col, k + 1, Len(col))

(***************************************************************************)
(* The test double (impl BeeDatabase for MockDbService).                   *)
(***************************************************************************)
\* queue.push_back(bee)
mock_add_bee(q, bee) == Append(q, bee)

\* queue.len()
mock_count_bees(q) == Len(q)

\* queue.get(bee_id as usize): the element at the 0-based position bee_id
mock_get_bee(q, bee_id) ==
    IF bee_id + 1 \in 1..Len(q) THEN [some |-> TRUE, val |-> q[bee_id + 1]]
    ELSE [some |-> FALSE, val |-> 0]

\* queue.clone().make_contiguous().to_vec(): the elements in queue order
mock_get_bees(q) == q

\* queue.retain(|bee| bee.id != bee_id): every element of that id is removed
mock_delete_bee(q, bee_id) == SelectSeq(q, LAMBDA bee : bee.id # bee_id)

(***************************************************************************)
(* bee_fn: capacity and id allocation.                                     *)
(***************************************************************************)
\* the capacity test off by one: `if count > 99`
ensure_capacity_above(col) == ~(db_count_bees(col) > Capacity)

\* count >= 99 -> false
ensure_capacity(col) == ~(db_count_bees(col) >= Capacity)

\* the ids of 1..99 (half-open) that no record holds
available_ids(col) ==
    LET listed == db_get_bees(col)
    IN  {id \in 1..(IdRangeEnd - 1) :
            \A i \in 1..Len(listed) : listed[i].id # id}

\* available_ids.first().ok_or("Unable to get new bee id")
get_new_bee_id(col) ==
    LET avail == available_ids(col)
    IN  IF avail = {} THEN Err("Unable to get new bee id")
        ELSE Ok(CHOOSE id \in avail : \A other \in avail : id <= other)

(***************************************************************************)
(* The deletion ledger (AppState.last_bee_deletion_req).                   *)
(***************************************************************************)
\* the insert replaced by entry(bee_id).or_insert(t): the first timestamp of
\* an id is kept
ledger_insert_keeps_first(led, bee_id, t) ==
    [k \in DOMAIN led \cup {bee_id} |-> IF k \in DOMAIN led THEN led[k] ELSE t]

\* HashMap::insert(bee_id, SystemTime::now())
ledger_insert(led, bee_id, t) ==
    [k \in DOMAIN led \cup {bee_id} |-> IF k = bee_id THEN t ELSE led[k]]

\* HashMap::remove(&bee_id)
ledger_remove(led, bee_id) == [k \in DOMAIN led \ {bee_id} |-> led[k]]

\* SystemTime::elapsed: Err when the clock reads earlier than the timestamp
elapsed(ts, t) == IF t >= ts THEN Ok(t - ts) ELSE Err("clock went backwards")

\* has_made_request with the window closed at its end: `duration <= 30 s`
has_made_request_inclusive(led, bee_id, t) ==
    IF bee_id \in DOMAIN led
    THEN LET e == elapsed(led[bee_id], t)
         IN  IF e.ok THEN e.val <= ConfirmWindow ELSE FALSE
    ELSE FALSE

\* has_made_request of the delete_bee handler
has_made_request(led, bee_id, t) ==
    IF bee_id \in DOMAIN led
    THEN LET e == elapsed(led[bee_id], t)
         IN  IF e.ok THEN e.val < ConfirmWindow ELSE FALSE
    ELSE FALSE

(***************************************************************************)
(* Requests in flight.  The service runs on the real backend: no step of   *)
(* a request touches the test double.                                      *)
(***************************************************************************)
Req(op, pc, id, todo) == [op |-> op, pc |-> pc, id |-> id, todo |-> todo]

InFlight == BagToSet(reqs)

\* a response: the handler, the id it was about, the HTTP status and the
\* kind of the error
Outcome(op, id, status, err) == [op |-> op, id |-> id, status |-> status, err |-> err]

NoOutcome == Outcome("none", 0, 0, "none")


\* the create requests in flight
CreatesInFlight ==
    BagCardinality([r \in {x \in InFlight : x.op = "create"} |-> reqs[r]])

\* a request may arrive while fewer than limit requests are in flight
Arrives(limit) == BagCardinality(reqs) < limit

\* the request that arrives is suspended at its first .await
Spawn(r) ==
    /\ reqs' = reqs (+) SetToBag({r})
    /\ resp' = NoOutcome
    /\ UNCHANGED <<config, queue, disk>>

\* request r goes on to its next suspension point
Goto(r, next) ==
    /\ reqs' = (reqs (-) SetToBag({r})) (+) SetToBag({next})
    /\ resp' = NoOutcome
    /\ UNCHANGED <<config, queue, disk>>

\* the request that arrives is answered by its first step
Answer(op, id, status, err) ==
    /\ resp' = Outcome(op, id, status, err)
    /\ UNCHANGED <<config, reqs, queue, disk>>

\* request r returns
Return(r, status, err) ==
    /\ reqs' = reqs (-) SetToBag({r})
    /\ resp' = Outcome(r.op, r.id, status, err)
    /\ UNCHANGED <<config, queue, disk>>

\* the ledger mutex is held from the confirm step of delete_bee to its return
LedgerLocked ==
    \E r \in InFlight : r.op = "delete" /\ r.pc \in {"remove_dir_all", "db_delete"}

(***************************************************************************)
(* POST /bee: create_bee.                                                  *)
(***************************************************************************)
\* the request arrives; ensure_capacity().await
CreateEnsureCapacity(limit, max_bees) ==
    /\ Arrives(limit)
    /\ Len(bees) + CreatesInFlight < max_bees
    /\ \E read \in BOOLEAN :
         IF ~read THEN Answer("create", 0, 500, "upstream")
         ELSE IF ensure_capacity(bees)
         THEN Spawn(Req("create", "get_new_bee_id", 0, <<>>))
         ELSE Spawn(Req("create", "count_bees", 0, <<>>))
    /\ UNCHANGED <<bees, dirs, containers, started, ledger, now>>

\* count_bees().await for the message of the capacity error
CreateCapacityReached(r) ==
    /\ r.op = "create" /\ r.pc = "count_bees"
    /\ \E read \in BOOLEAN :
         IF read THEN Return(r, 400, "capacity")
         ELSE Return(r, 500, "upstream")
    /\ UNCHANGED <<bees, dirs, containers, started, ledger, now>>

\* get_new_bee_id().await?
CreateGetNewBeeId(r) ==
    /\ r.op = "create" /\ r.pc = "get_new_bee_id"
    /\ \E read \in BOOLEAN :
         LET new_bee_id == get_new_bee_id(bees)
         IN  IF ~read THEN Return(r, 500, "upstream")
             ELSE IF new_bee_id.ok
             THEN Goto(r, Req("create", "get_neighborhood", new_bee_id.val, <<>>))
             ELSE Return(r, 500, "id_unavailable")
    /\ UNCHANGED <<bees, dirs, containers, started, ledger, now>>

\* create_node_dir without the node_path.exists() test: create_dir_all accepts
\* a directory that exists
CreateGetNeighborhood_NoExistsTest(r) ==
    /\ r.op = "create" /\ r.pc = "get_neighborhood"
    /\ \E fetched \in BOOLEAN :
         IF ~fetched THEN Return(r, 500, "upstream")
         ELSE Goto(r, Req("create", "create_dir_all", r.id, <<>>))
    /\ UNCHANGED <<bees, dirs, containers, started, ledger, now>>

\* the directory of the node created before the lookup is awaited
CreateGetNeighborhood_DirFirst(r) ==
    /\ r.op = "create" /\ r.pc = "get_neighborhood"
    /\ dirs' = dirs \cup {r.id}
    /\ \E fetched \in BOOLEAN :
         IF ~fetched THEN Return(r, 500, "upstream")
         ELSE Goto(r, Req("create", "create_dir_all", r.id, <<>>))
    /\ UNCHANGED <<bees, containers, started, ledger, now>>

\* get_neighborhood().await?, then create_node_dir up to its first .await:
\* get_node_path and the node_path.exists() test
CreateGetNeighborhood(r) ==
    /\ r.op = "create" /\ r.pc = "get_neighborhood"
    /\ \E fetched \in BOOLEAN :
         IF ~fetched THEN Return(r, 500, "upstream")
         ELSE IF r.id \in dirs THEN Return(r, 500, "dir_exists")
         ELSE /\ Goto(r, Req("create", "create_dir_all", r.id, <<>>))
    /\ UNCHANGED <<bees, dirs, containers, started, ledger, now>>

\* fs::create_dir_all(&node_path).await?
CreateDirAll(r) ==
    /\ r.op = "create" /\ r.pc = "create_dir_all"
    /\ \E created \in BOOLEAN :
         IF created
         THEN /\ dirs' = dirs \cup {r.id}
              /\ Goto(r, Req("create", "set_permissions", r.id, <<>>))
         ELSE /\ Return(r, 500, "upstream")
              /\ UNCHANGED dirs
    /\ UNCHANGED <<bees, containers, started, ledger, now>>

\* the two last calls of create_bee in the other order: save_bee comes before
\* create_bee_container
CreateSetPermissions_SavesFirst(r) ==
    /\ r.op = "create" /\ r.pc = "set_permissions"
    /\ \E done \in BOOLEAN :
         IF done
         THEN /\ Goto(r, Req("create", "save_bee", r.id, <<>>))
         ELSE Return(r, 500, "upstream")
    /\ UNCHANGED <<bees, dirs, containers, started, ledger, now>>

\* fs::metadata().await? and fs::set_permissions().await?, then new_bee_data
\* and data_to_info
CreateSetPermissions(r) ==
    /\ r.op = "create" /\ r.pc = "set_permissions"
    /\ \E done \in BOOLEAN :
         IF done
         THEN /\ Goto(r, Req("create", "create_bee_container", r.id, <<>>))
         ELSE Return(r, 500, "upstream")
    /\ UNCHANGED <<bees, dirs, containers, started, ledger, now>>

\* create_bee_container with a cleanup: when the runtime fails the directory
\* of the node is removed again
CreateBeeContainer_RemovesDir(r) ==
    /\ r.op = "create" /\ r.pc = "create_bee_container"
    /\ \E created \in BOOLEAN :
         IF created
         THEN /\ containers' = containers \cup {r.id}
              /\ Goto(r, Req("create", "save_bee", r.id, <<>>))
              /\ UNCHANGED dirs
         ELSE /\ Return(r, 500, "upstream")
              /\ dirs' = dirs \ {r.id}
              /\ UNCHANGED containers
    /\ UNCHANGED <<bees, started, ledger, now>>

\* create_bee_container(&bee).await?: the runtime creates node_<id>, or fails
CreateBeeContainer(r) ==
    /\ r.op = "create" /\ r.pc = "create_bee_container"
    /\ \E created \in BOOLEAN :
         IF created
         THEN /\ containers' = containers \cup {r.id}
              /\ Goto(r, Req("create", "save_bee", r.id, <<>>))
         ELSE /\ Return(r, 500, "upstream")
              /\ UNCHANGED containers
    /\ UNCHANGED <<bees, dirs, started, ledger, now>>

\* save_bee: ensure_capacity(db.clone()).await?
SaveBeeEnsureCapacity(r) ==
    /\ r.op = "create" /\ r.pc = "save_bee"
    /\ \E read \in BOOLEAN :
         IF ~read THEN Return(r, 500, "upstream")
         ELSE IF ensure_capacity(bees)
         THEN Goto(r, Req("create", "add_bee", r.id, <<>>))
         ELSE Return(r, 500, "capacity")
    /\ UNCHANGED <<bees, dirs, containers, started, ledger, now>>

\* save_bee: db.add_bee(bee_data).await?, then Ok(Json(bee))
SaveBeeAddBee(r) ==
    /\ r.op = "create" /\ r.pc = "add_bee"
    /\ \E nbh \in Neighborhoods, stored \in BOOLEAN :
         IF stored
         THEN /\ bees' = db_add_bee(bees, new_bee_data(r.id, nbh, get_node_path(r.id)))
              /\ Return(r, 200, "none")
         ELSE /\ Return(r, 500, "upstream")
              /\ UNCHANGED bees
    /\ UNCHANGED <<dirs, containers, started, ledger, now>>

(***************************************************************************)
(* GET /bee/{id} and GET /bees.                                            *)
(***************************************************************************)
\* find_bee: get_bee(bee_id).await?, 404 when there is no record; read is
\* whether the store answered
find_bee(col, bee_id, read) ==
    LET found == db_get_bee(col, bee_id)
    IN  IF ~read THEN Err(500)
        ELSE IF found.some THEN Ok(found.val) ELSE Err(404)

\* the error find_bee returns, as the response of the handler
FindBeeFailed(op, bee_id, found) ==
    IF found.val = 404 THEN Answer(op, bee_id, 404, "not_found")
    ELSE Answer(op, bee_id, 500, "upstream")

GetBee(limit, bee_id) ==
    /\ Arrives(limit)
    /\ \E read \in BOOLEAN :
         LET found == find_bee(bees, bee_id, read)
         IN  IF found.ok THEN Answer("get", bee_id, 200, "none")
             ELSE FindBeeFailed("get", bee_id, found)
    /\ UNCHANGED <<bees, dirs, containers, started, ledger, now>>

GetBees(limit) ==
    /\ Arrives(limit)
    /\ \E read \in BOOLEAN :
         IF read THEN Answer("list", Len(db_get_bees(bees)), 200, "none")
         ELSE Answer("list", 0, 500, "upstream")
    /\ UNCHANGED <<bees, dirs, containers, started, ledger, now>>

(***************************************************************************)
(* DELETE /bee/{id}/req: request_bee_deletion.                             *)
(***************************************************************************)
\* the request arrives; find_bee(bee_id, &state).await?
RequestDeletionFindBee(limit, bee_id) ==
    /\ Arrives(limit)
    /\ \E read \in BOOLEAN :
         LET found == find_bee(bees, bee_id, read)
         IN  IF found.ok THEN Spawn(Req("request_deletion", "lock", bee_id, <<>>))
             ELSE FindBeeFailed("request_deletion", bee_id, found)
    /\ UNCHANGED <<bees, dirs, containers, started, ledger, now>>

\* the insert replaced by entry(bee_id).or_insert(now): a ticket that exists
\* is not refreshed
RequestDeletionInsert_KeepsTicket(r) ==
    /\ r.op = "request_deletion" /\ r.pc = "lock"
    /\ ~LedgerLocked
    /\ ledger' = IF r.id \in DOMAIN ledger THEN ledger
                 ELSE ledger_insert(ledger, r.id, now)
    /\ Return(r, 200, "none")
    /\ UNCHANGED <<bees, dirs, containers, started, now>>

\* last_bee_deletion_req.lock().await; insert(bee_id, SystemTime::now()); Ok
RequestDeletionInsert(r) ==
    /\ r.op = "request_deletion" /\ r.pc = "lock"
    /\ ~LedgerLocked
    /\ ledger' = ledger_insert(ledger, r.id, now)
    /\ Return(r, 200, "none")
    /\ UNCHANGED <<bees, dirs, containers, started, now>>

(***************************************************************************)
(* DELETE /bee/{id}: delete_bee, the confirmed delete.                     *)
(***************************************************************************)
\* the confirm call without its find_bee: it goes to the ticket check
\* whether or not the node has a record
DeleteFindBee_NoExistenceCheck(limit, bee_id) ==
    /\ Arrives(limit)
    /\ Spawn(Req("delete", "lock", bee_id, <<>>))
    /\ UNCHANGED <<bees, dirs, containers, started, ledger, now>>

\* the request arrives; find_bee(bee_id, &state).await?
DeleteFindBee(limit, bee_id) ==
    /\ Arrives(limit)
    /\ \E read \in BOOLEAN :
         LET found == find_bee(bees, bee_id, read)
         IN  IF found.ok THEN Spawn(Req("delete", "lock", bee_id, <<>>))
             ELSE FindBeeFailed("delete", bee_id, found)
    /\ UNCHANGED <<bees, dirs, containers, started, ledger, now>>

\* the ticket check reduced to contains_key: the age of the ticket is ignored
DeleteConfirm_AnyTicket(r) ==
    /\ r.op = "delete" /\ r.pc = "lock"
    /\ ~LedgerLocked
    /\ IF r.id \in DOMAIN ledger
       THEN Goto(r, Req("delete", "remove_dir_all", r.id, <<>>))
       ELSE Return(r, 400, "confirmation")
    /\ UNCHANGED <<bees, dirs, containers, started, ledger, now>>

\* a ticket check that purges the ticket it rejects
DeleteConfirm_PurgesRejected(r) ==
    /\ r.op = "delete" /\ r.pc = "lock"
    /\ ~LedgerLocked
    /\ IF has_made_request(ledger, r.id, now)
       THEN /\ Goto(r, Req("delete", "remove_dir_all", r.id, <<>>))
            /\ UNCHANGED ledger
       ELSE /\ Return(r, 400, "confirmation")
            /\ ledger' = ledger_remove(ledger, r.id)
    /\ UNCHANGED <<bees, dirs, containers, started, now>>

\* the ticket check on a ledger that is not behind a mutex: the check does
\* not wait for a delete that is under way
DeleteConfirm_NoMutex(r) ==
    /\ r.op = "delete" /\ r.pc = "lock"
    /\ IF has_made_request(ledger, r.id, now)
       THEN Goto(r, Req("delete", "remove_dir_all", r.id, <<>>))
       ELSE Return(r, 400, "confirmation")
    /\ UNCHANGED <<bees, dirs, containers, started, ledger, now>>

\* last_bee_deletion_req.lock().await; the ticket check; then
\* bee_service.delete_bee up to its first .await (get_node_path)
DeleteConfirm(r) ==
    /\ r.op = "delete" /\ r.pc = "lock"
    /\ ~LedgerLocked
    /\ IF has_made_request(ledger, r.id, now)
       THEN Goto(r, Req("delete", "remove_dir_all", r.id, <<>>))
       ELSE Return(r, 400, "confirmation")
    /\ UNCHANGED <<bees, dirs, containers, started, ledger, now>>

\* bee_fn::delete_bee when neither the file system nor the store raises a
\* fault: remove_dir_all of a path that does not exist is an error (NotFound),
\* returned by `?` before db.delete_bee; the result and the records left
delete_bee(dirset, col, bee_id) ==
    IF bee_id \in dirset
    THEN [ok |-> TRUE, bees |-> db_delete_bee(col, bee_id)]
    ELSE [ok |-> FALSE, bees |-> col]

\* a delete that removes the parent directory of the node, and with it the
\* directories of the nodes that share it
DeleteRemoveDirAll_RemovesParent(r) ==
    /\ r.op = "delete" /\ r.pc = "remove_dir_all"
    /\ \E removed \in BOOLEAN :
         IF removed /\ r.id \in dirs
         THEN /\ dirs' = {d \in dirs : get_dir_id(d) # get_dir_id(r.id)}
              /\ Goto(r, Req("delete", "db_delete", r.id, <<>>))
         ELSE /\ Return(r, 500, "upstream")
              /\ UNCHANGED dirs
    /\ UNCHANGED <<bees, containers, started, ledger, now>>

\* fs::remove_dir_all(node_path).await?: fails when the directory is missing
DeleteRemoveDirAll(r) ==
    /\ r.op = "delete" /\ r.pc = "remove_dir_all"
    /\ \E removed \in BOOLEAN :
         IF removed /\ r.id \in dirs
         THEN /\ dirs' = dirs \ {r.id}
              /\ Goto(r, Req("delete", "db_delete", r.id, <<>>))
         ELSE /\ Return(r, 500, "upstream")
              /\ UNCHANGED dirs
    /\ UNCHANGED <<bees, containers, started, ledger, now>>

\* the ticket removed before the delete is awaited: it is gone whether or not
\* the delete succeeds
DeleteDbDeleteBee_TicketFirst(r) ==
    /\ r.op = "delete" /\ r.pc = "db_delete"
    /\ ledger' = ledger_remove(ledger, r.id)
    /\ \E deleted \in BOOLEAN :
         IF deleted
         THEN /\ bees' = db_delete_bee(bees, r.id)
              /\ Return(r, 200, "none")
         ELSE /\ Return(r, 500, "upstream")
              /\ UNCHANGED bees
    /\ UNCHANGED <<dirs, containers, started, now>>

\* db.delete_bee(bee_id).await?; last_bee_deletion_req.remove(&bee_id); Ok
DeleteDbDeleteBee(r) ==
    /\ r.op = "delete" /\ r.pc = "db_delete"
    /\ \E deleted \in BOOLEAN :
         IF deleted
         THEN /\ bees' = db_delete_bee(bees, r.id)
              /\ ledger' = ledger_remove(ledger, r.id)
              /\ Return(r, 200, "none")
         ELSE /\ Return(r, 500, "upstream")
              /\ UNCHANGED <<bees, ledger>>
    /\ UNCHANGED <<dirs, containers, started, now>>

(***************************************************************************)
(* GET /bees/start, /bees/stop, /bees/recreate.                            *)
(***************************************************************************)
Ids(list) == [k \in 1..Len(list) |-> list[k].id]

\* the request arrives; get_bees().await?; the names (or infos) are collected
BulkGetBees(limit, op, first_pc) ==
    /\ Arrives(limit)
    /\ \E read \in BOOLEAN :
         LET todo == Ids(db_get_bees(bees))
         IN  IF ~read THEN Answer(op, 0, 500, "upstream")
             ELSE IF todo = <<>> THEN Answer(op, 0, 200, "none")
             ELSE Spawn(Req(op, first_pc, 0, todo))
    /\ UNCHANGED <<bees, dirs, containers, started, ledger, now>>

StartBees(limit) == BulkGetBees(limit, "start", "start")
StopBees(limit) == BulkGetBees(limit, "stop", "stop")
RecreateBees(limit) == BulkGetBees(limit, "recreate", "stop")

\* the loop goes on to the next name, or the handler returns
BulkNext(r, first_pc) ==
    IF Len(r.todo) = 1 THEN Return(r, 200, "none")
    ELSE Goto(r, Req(r.op, first_pc, 0, Tail(r.todo)))

\* start_container(name).await
StartBeeContainer(r) ==
    /\ r.op = "start" /\ r.pc = "start"
    /\ \E done \in BOOLEAN :
         IF done /\ Head(r.todo) \in containers
         THEN /\ started' = started \cup {Head(r.todo)}
              /\ BulkNext(r, "start")
         ELSE /\ Return(r, 500, "upstream")
              /\ UNCHANGED started
    /\ UNCHANGED <<bees, dirs, containers, ledger, now>>

\* stop_container(name).await
StopBeeContainer(r) ==
    /\ r.op = "stop" /\ r.pc = "stop"
    /\ \E stopped \in BOOLEAN :
         IF stopped /\ Head(r.todo) \in containers
         THEN /\ started' = started \ {Head(r.todo)}
              /\ BulkNext(r, "stop")
         ELSE /\ Return(r, 500, "upstream")
              /\ UNCHANGED started
    /\ UNCHANGED <<bees, dirs, containers, ledger, now>>

\* a stop whose failure is returned to the caller
RecreateStop_Propagates(r) ==
    /\ r.op = "recreate" /\ r.pc = "stop"
    /\ \E stopped \in BOOLEAN :
         IF stopped
         THEN /\ started' = started \ {Head(r.todo)}
              /\ Goto(r, Req("recreate", "remove", 0, r.todo))
         ELSE /\ Return(r, 500, "upstream")
              /\ UNCHANGED started
    /\ UNCHANGED <<bees, dirs, containers, ledger, now>>

\* recreate_container: stop_bee_container(&bee.name).await.unwrap_or_default()
RecreateStop(r) ==
    /\ r.op = "recreate" /\ r.pc = "stop"
    /\ \E stopped \in BOOLEAN :
         started' = IF stopped THEN started \ {Head(r.todo)} ELSE started
    /\ Goto(r, Req("recreate", "remove", 0, r.todo))
    /\ UNCHANGED <<bees, dirs, containers, ledger, now>>

\* recreate_container: remove_bee_container(&bee.name).await.unwrap_or_default()
RecreateRemove(r) ==
    /\ r.op = "recreate" /\ r.pc = "remove"
    /\ \E removed \in BOOLEAN :
         IF removed
         THEN /\ containers' = containers \ {Head(r.todo)}
              /\ started' = started \ {Head(r.todo)}
         ELSE UNCHANGED <<containers, started>>
    /\ Goto(r, Req("recreate", "create", 0, r.todo))
    /\ UNCHANGED <<bees, dirs, ledger, now>>

\* a recreate that writes the record of the node again, with the
\* neighborhood of the new container
RecreateCreate_UpdatesRecord(r) ==
    /\ r.op = "recreate" /\ r.pc = "create"
    /\ \E created \in BOOLEAN :
         IF created
         THEN /\ containers' = containers \cup {Head(r.todo)}
              /\ bees' = [i \in 1..Len(bees) |->
                            IF bees[i].id = Head(r.todo)
                            THEN [bees[i] EXCEPT !.neighborhood = "nbh_new"]
                            ELSE bees[i]]
              /\ BulkNext(r, "stop")
         ELSE /\ Return(r, 500, "upstream")
              /\ UNCHANGED <<bees, containers>>
    /\ UNCHANGED <<dirs, started, ledger, now>>

\* recreate_container: create_bee_container(bee, config).await?
RecreateCreate(r) ==
    /\ r.op = "recreate" /\ r.pc = "create"
    /\ \E created \in BOOLEAN :
         IF created
         THEN /\ containers' = containers \cup {Head(r.todo)}
              /\ BulkNext(r, "stop")
         ELSE /\ Return(r, 500, "upstream")
              /\ UNCHANGED containers
    /\ UNCHANGED <<bees, dirs, started, ledger, now>>

(***************************************************************************)
(* The request boundary and the clock.                                     *)
(***************************************************************************)
\* TimeoutLayer (or a closed connection) drops the handler's future at the
\* .await it is suspended at; a guard it holds is released
Abandon(r) ==
    /\ Return(r, 408, "timeout")
    /\ UNCHANGED <<bees, dirs, containers, started, ledger, now>>

Tick ==
    /\ now + TickStep <= MaxTime
    /\ now' = now + TickStep
    /\ resp' = NoOutcome
    /\ UNCHANGED <<config, bees, queue, dirs, disk, containers, started,
                   ledger, reqs>>

(***************************************************************************)
(* The service.                                                            *)
(***************************************************************************)
\* the records of the nodes 1..n
Provisioned(n) ==
    [i \in 1..n |-> new_bee_data(i, CHOOSE nbh \in Neighborhoods : TRUE, get_node_path(i))]

\* Database::new opens the store of the earlier runs, whose nodes have their
\* directories and their containers as create_bee left them; the ledger
\* starts empty
InitWith(col) ==
    /\ config = ParsedConfig
    /\ bees = col
    /\ queue = <<>>
    /\ dirs = {col[i].id : i \in 1..Len(col)}
    /\ disk = <<>>
    /\ containers = {col[i].id : i \in 1..Len(col)}
    /\ started = {}
    /\ ledger = <<>>
    /\ now = 0
    /\ reqs = EmptyBag
    /\ resp = NoOutcome

Init == \E n \in 0..MaxInitBees : InitWith(Provisioned(n))

CreateStep(r) ==
    \/ CreateCapacityReached(r)
    \/ CreateGetNewBeeId(r)
    \/ CreateGetNeighborhood(r)
    \/ CreateDirAll(r)
    \/ CreateSetPermissions(r)
    \/ CreateBeeContainer(r)
    \/ SaveBeeEnsureCapacity(r)
    \/ SaveBeeAddBee(r)

\* the routes of bee_handlers.rs, and the listing
BeeRoutes(max_bees) ==
    \/ CreateEnsureCapacity(MaxInFlight, max_bees)
    \/ \E r \in InFlight : CreateStep(r)
    \/ \E bee_id \in ReqIds : GetBee(MaxInFlight, bee_id)
    \/ GetBees(MaxInFlight)
    \/ \E bee_id \in ReqIds : RequestDeletionFindBee(MaxInFlight, bee_id)
    \/ \E r \in InFlight : RequestDeletionInsert(r)
    \/ \E bee_id \in ReqIds : DeleteFindBee(MaxInFlight, bee_id)
    \/ \E r \in InFlight : DeleteConfirm(r)
    \/ \E r \in InFlight : DeleteRemoveDirAll(r)
    \/ \E r \in InFlight : DeleteDbDeleteBee(r)
    \/ \E r \in InFlight : Abandon(r)
    \/ Tick

\* the bulk routes of bees_handlers.rs
BeesRoutes ==
    \/ StartBees(MaxInFlight)
    \/ StopBees(MaxInFlight)
    \/ RecreateBees(MaxInFlight)
    \/ \E r \in InFlight : StartBeeContainer(r)
    \/ \E r \in InFlight : StopBeeContainer(r)
    \/ \E r \in InFlight : RecreateStop(r)
    \/ \E r \in InFlight : RecreateRemove(r)
    \/ \E r \in InFlight : RecreateCreate(r)

Next == BeeRoutes(MaxBees)

Spec == Init /\ [][Next]_vars

\* all the routes: the store holds up to MaxBulkInitBees nodes when the
\* service starts
InitAll == \E n \in 0..MaxBulkInitBees : InitWith(Provisioned(n))

NextAll == BeeRoutes(MaxBulkBees) \/ BeesRoutes

SpecAll == InitAll /\ [][NextAll]_vars

(***************************************************************************)
(* Provisioning near capacity: the store holds the nodes 1..97, and only   *)
(* create requests arrive.                                                 *)
(***************************************************************************)
InitProvision == InitWith(Provisioned(IdRangeEnd - 2))

NextProvision ==
    \/ CreateEnsureCapacity(MaxProvisioning, Capacity + MaxProvisioning + 1)
    \/ \E r \in InFlight : CreateStep(r)
    \/ \E r \in InFlight : Abandon(r)

SpecProvision == InitProvision /\ [][NextProvision]_vars

(***************************************************************************)
(* Allocation alone: the store holds the nodes 1..n, or 1..n without one   *)
(* of them (deleted since), and one create request runs by itself up to    *)
(* its id.                                                                 *)
(***************************************************************************)
Without(col, bee_id) == SelectSeq(col, LAMBDA bee : bee.id # bee_id)

InitAlloc ==
    \E n \in 0..(IdRangeEnd - 1) : \E gap \in 0..n :
        InitWith(Without(Provisioned(n), gap))

NextAlloc ==
    \/ CreateEnsureCapacity(1, Capacity + 1)
    \/ \E r \in InFlight : CreateGetNewBeeId(r)

SpecAlloc == InitAlloc /\ [][NextAlloc]_vars

(***************************************************************************)
(* The confirmation window: node 1 is registered and its deletion was      *)
(* requested at time 0; deletion requests and confirmed deletes follow.    *)
(***************************************************************************)
InitRefresh ==
    /\ config = ParsedConfig
    /\ bees = Provisioned(1)
    /\ queue = <<>>
    /\ dirs = {1}
    /\ disk = <<>>
    /\ containers = {1}
    /\ started = {}
    /\ ledger = ledger_insert(<<>>, 1, 0)
    /\ now = 0
    /\ reqs = EmptyBag
    /\ resp = Outcome("request_deletion", 1, 200, "none")

NextRefresh ==
    \/ \E bee_id \in ReqIds : RequestDeletionFindBee(MaxInFlight, bee_id)
    \/ \E r \in InFlight : RequestDeletionInsert(r)
    \/ \E bee_id \in ReqIds : DeleteFindBee(MaxInFlight, bee_id)
    \/ \E r \in InFlight : DeleteConfirm(r)
    \/ \E r \in InFlight : DeleteRemoveDirAll(r)
    \/ \E r \in InFlight : DeleteDbDeleteBee(r)
    \/ \E r \in InFlight : Abandon(r)
    \/ Tick

SpecRefresh == InitRefresh /\ [][NextRefresh]_vars

(***************************************************************************)
(* The two backends of the registry, given the same add_bee and delete_bee *)
(* calls.                                                                  *)
(***************************************************************************)
RegistryIds == 1..MaxRegistryId

RegistryAddBee(bee_id) ==
    /\ db_count_bees(bees) < MaxRegistryLen
    /\ LET bee == new_bee_data(bee_id, CHOOSE nbh \in Neighborhoods : TRUE,
                               get_node_path(bee_id))
       IN  /\ bees' = db_add_bee(bees, bee)
           /\ queue' = mock_add_bee(queue, bee)
    /\ resp' = Outcome("add_bee", bee_id, 200, "none")
    /\ UNCHANGED <<config, dirs, disk, containers, started, ledger, now, reqs>>

RegistryDeleteBee(bee_id) ==
    /\ bees' = db_delete_bee(bees, bee_id)
    /\ queue' = mock_delete_bee(queue, bee_id)
    /\ resp' = Outcome("delete_bee", bee_id, 200, "none")
    /\ UNCHANGED <<config, dirs, disk, containers, started, ledger, now, reqs>>

NextRegistry ==
    \/ \E bee_id \in RegistryIds : RegistryAddBee(bee_id)
    \/ \E bee_id \in RegistryIds : RegistryDeleteBee(bee_id)

SpecRegistry == InitWith(<<>>) /\ [][NextRegistry]_vars

(***************************************************************************)
(* Database: the calls of the real backend, thread by thread.  The service *)
(* runs on the multi-thread runtime of #[tokio::main], so two calls are    *)
(* two threads.  A call is at "lock" while it awaits db.write() or         *)
(* db.read(), at "collection" while it holds the guard and builds the      *)
(* collection handle, and at "store" once get_bees_col_write or            *)
(* get_bees_col_read has returned the handle: the guard is a temporary of  *)
(* that function's body and is dropped when it returns, so a call at       *)
(* "store" runs insert_one, delete_one, find_one, find or count_documents  *)
(* with no guard.                                                          *)
(***************************************************************************)
WriteOps == {"add_bee", "delete_bee"}

ReadOps == {"get_bee", "get_bees", "count_bees"}

\* the guards of db: Arc<RwLock<PoloDb>> that are alive
WriteGuards == {r \in InFlight : r.pc = "collection" /\ r.op \in WriteOps}

ReadGuards == {r \in InFlight : r.pc = "collection" /\ r.op \in ReadOps}

\* the add_bee calls that have not inserted yet
AddsInFlight ==
    BagCardinality([r \in {x \in InFlight : x.op = "add_bee"} |-> reqs[r]])

\* a caller enters one of the five operations
DbCall(op, bee_id) ==
    /\ Arrives(MaxLockCalls)
    /\ op = "add_bee" => db_count_bees(bees) + AddsInFlight < MaxLockBees
    /\ op \in {"get_bees", "count_bees"} => bee_id = 0
    /\ op \notin {"get_bees", "count_bees"} => bee_id # 0
    /\ Spawn(Req(op, "lock", bee_id, <<>>))
    /\ UNCHANGED <<bees, dirs, containers, started, ledger, now>>

\* self.db.write().await: granted when no guard is alive
DbWrite(r) ==
    /\ r.op \in WriteOps /\ r.pc = "lock"
    /\ WriteGuards = {} /\ ReadGuards = {}
    /\ Goto(r, Req(r.op, "collection", r.id, r.todo))
    /\ UNCHANGED <<bees, dirs, containers, started, ledger, now>>

\* self.db.read().await: granted when no write guard is alive
DbRead(r) ==
    /\ r.op \in ReadOps /\ r.pc = "lock"
    /\ WriteGuards = {}
    /\ Goto(r, Req(r.op, "collection", r.id, r.todo))
    /\ UNCHANGED <<bees, dirs, containers, started, ledger, now>>

\* .collection::<BeeData>("bees") is returned and the guard is dropped
DbCollection(r) ==
    /\ r.pc = "collection"
    /\ Goto(r, Req(r.op, "store", r.id, r.todo))
    /\ UNCHANGED <<bees, dirs, containers, started, ledger, now>>

\* the operation on the collection, and Ok
DbStore(r) ==
    /\ r.pc = "store"
    /\ bees' = IF r.op = "add_bee"
                THEN db_add_bee(bees, new_bee_data(r.id,
                                    CHOOSE nbh \in Neighborhoods : TRUE,
                                    get_node_path(r.id)))
                ELSE IF r.op = "delete_bee" THEN db_delete_bee(bees, r.id)
                ELSE bees
    /\ Return(r, 200, "none")
    /\ UNCHANGED <<dirs, containers, started, ledger, now>>

NextLock ==
    \/ \E op \in WriteOps \cup ReadOps, bee_id \in {0} \cup ReqIds :
          DbCall(op, bee_id)
    \/ \E r \in InFlight : DbWrite(r)
    \/ \E r \in InFlight : DbRead(r)
    \/ \E r \in InFlight : DbCollection(r)
    \/ \E r \in InFlight : DbStore(r)

SpecLock == InitWith(<<>>) /\ [][NextLock]_vars

(***************************************************************************)
(* The resolver under every configuration: the templates are drawn from    *)
(* the strings over TemplateChars and from the strings the tests use      *)
(* (swarm_data_xx and swarm_data_x without their middle word), and         *)
(* one step derives the ports, the directory and the name of one node id   *)
(* as create_node_dir and data_to_info do.                                 *)
(***************************************************************************)
TemplateChars == {"1", "x", "/"}

TestTemplates ==
    {<<"1", "7", "x", "x">>, <<"1", "7", "0", "5">>, <<"t", "e", "s", "t">>,
     <<"1", "x", "7", "0">>, <<"1", "x", "x", "0">>,
     <<"1", "5", "3", "4", "0", "x", "x">>,
     <<"s", "w", "a", "r", "m", "_", "x", "x">>,
     <<"d", "a", "t", "a", "_", "x", "x">>, <<"d", "a", "t", "a", "_", "x">>}

Templates ==
    TestTemplates \cup UNION {[1..n -> TemplateChars] : n \in 0..MaxTemplateLen}

BeeIds == 1..IdRangeEnd

InitResolve ==
    /\ \E template \in Templates, capacity \in 1..MaxDirCapacity :
          config = [api_port |-> template,
                    p2p_port |-> template,
                    parent_dir_format |-> template,
                    parent_dir_capacity |-> capacity,
                    root_path |-> <<"/", "m">>]
    /\ bees = <<>>
    /\ queue = <<>>
    /\ dirs = {}
    /\ disk = <<>>
    /\ containers = {}
    /\ started = {}
    /\ ledger = <<>>
    /\ now = 0
    /\ reqs = EmptyBag
    /\ resp = [op |-> "none", id |-> 0]

DeriveResources(bee_id) ==
    /\ resp' = [op |-> "derive", id |-> bee_id,
                name |-> get_node_name(bee_id),
                api_port |-> get_api_port(config, bee_id),
                p2p_port |-> get_p2p_port(config, bee_id),
                dir_id |-> get_dir_id_in(config, bee_id),
                node_path |-> get_node_path_in(config, bee_id)]
    /\ UNCHANGED <<config, bees, queue, dirs, disk, containers, started,
                   ledger, now, reqs>>

NextResolve == \E bee_id \in BeeIds : DeriveResources(bee_id)

SpecResolve == InitResolve /\ [][NextResolve]_vars

(***************************************************************************)
(* The container specification (Docker::get_container_config) of a node   *)
(* under every pair of valid port templates.                               *)
(***************************************************************************)
\* bee_fn::data_to_info and BeeInfo::new
data_to_info(cfg, data) ==
    LET api_port == get_api_port(cfg, data.id)
        p2p_port == get_p2p_port(cfg, data.id)
    IN  IF ~api_port.ok THEN api_port
        ELSE IF ~p2p_port.ok THEN p2p_port
        ELSE Ok([id |-> data.id,
                 name |-> get_node_name(data.id),
                 neighborhood |-> data.neighborhood,
                 data_dir |-> data.data_dir,
                 api_port |-> api_port.val,
                 p2p_port |-> p2p_port.val])

\* HashMap::insert: the value of an existing key is replaced
HashMapInsert(map, key, value) == (key :> value) @@ map

\* the bind mount, the port bindings and the restart policy of the
\* specification
get_container_config(bee, cfg) ==
    LET bee_data_dir == "/home/bee/.bee"
        with_api == HashMapInsert(<<>>, bee.api_port,
                        [host_port |-> bee.api_port, host_ip |-> "127.0.0.1"])
        port_binding == HashMapInsert(with_api, bee.p2p_port,
                        [host_port |-> bee.p2p_port, host_ip |-> "0.0.0.0"])
    IN  [binds |-> <<[host |-> bee.data_dir, container |-> bee_data_dir]>>,
         port_bindings |-> port_binding,
         restart_policy |-> "unless-stopped",
         exposed_ports |-> {bee.api_port, bee.p2p_port}]

\* port templates that Config::parse accepts
PortTemplates ==
    {<<"1", "7", "x", "x">>, <<"1", "8", "x", "x">>, <<"1", "x", "x">>,
     <<"1", "0", "1", "x", "x">>}

InitContainer ==
    /\ \E api_port \in PortTemplates, p2p_port \in PortTemplates :
          config = [ParsedConfig EXCEPT !.api_port = api_port,
                                        !.p2p_port = p2p_port]
    /\ bees = <<>>
    /\ queue = <<>>
    /\ dirs = {}
    /\ disk = <<>>
    /\ containers = {}
    /\ started = {}
    /\ ledger = <<>>
    /\ now = 0
    /\ reqs = EmptyBag
    /\ resp = [op |-> "none", id |-> 0]

\* the specification create_bee_container builds for the node bee_id
GetContainerConfig(bee_id) ==
    /\ LET data == new_bee_data(bee_id, CHOOSE nbh \in Neighborhoods : TRUE,
                                get_node_path(bee_id))
           bee == data_to_info(config, data)
       IN  resp' = IF ~bee.ok
                   THEN [op |-> "data_to_info", id |-> bee_id, val |-> bee]
                   ELSE [op |-> "get_container_config", id |-> bee_id,
                         bee |-> bee.val,
                         val |-> get_container_config(bee.val, config)]
    /\ UNCHANGED <<config, bees, queue, dirs, disk, containers, started,
                   ledger, now, reqs>>

NextContainer == \E bee_id \in BeeIds : GetContainerConfig(bee_id)

SpecContainer == InitContainer /\ [][NextContainer]_vars

(***************************************************************************)
(* GET /bees/recreate, next to GET /bees/start which starts the containers *)
(* that a recreate then stops.                                             *)
(***************************************************************************)
InitRecreate == \E n \in 0..MaxBulkInitBees : InitWith(Provisioned(n))

NextRecreate ==
    \/ RecreateBees(MaxInFlight)
    \/ \E r \in InFlight : RecreateStop(r)
    \/ \E r \in InFlight : RecreateRemove(r)
    \/ \E r \in InFlight : RecreateCreate(r)
    \/ StartBees(MaxInFlight)
    \/ \E r \in InFlight : StartBeeContainer(r)
    \/ \E r \in InFlight : Abandon(r)

SpecRecreate == InitRecreate /\ [][NextRecreate]_vars

(***************************************************************************)
(* create_node_dir on the file system.  disk maps the path of every        *)
(* directory under the root to its permission mode: "umask" is the mode    *)
(* create_dir_all gives, "0755" the mode set_permissions sets.  The        *)
(* existence test runs when the call starts, before its first .await; a    *)
(* call is then suspended at create_dir_all, at metadata and at            *)
(* set_permissions.  remove_dir_all is the call of bee_fn::delete_bee.     *)
(***************************************************************************)
\* two ids of the first parent directory and the first id of the second
StorageIds == {1, 2, ParentDirCapacity + 1}

get_parent_path(bee_id) == <<"root", get_dir_id(bee_id)>>

Exists(path) == path \in DOMAIN disk

\* a call that does not test whether the path exists
CreateNodeDir_NoExistsTest(bee_id) ==
    /\ Arrives(MaxStorageCalls)
    /\ reqs' = reqs (+) SetToBag({Req("create_node_dir", "create_dir_all",
                                      bee_id, <<>>)})
    /\ resp' = NoOutcome
    /\ UNCHANGED <<config, bees, queue, dirs, disk, containers, started,
                   ledger, now>>

\* get_node_path and node_path.exists()
CreateNodeDir(bee_id) ==
    /\ Arrives(MaxStorageCalls)
    /\ IF Exists(get_node_path(bee_id))
       THEN /\ resp' = Outcome("create_node_dir", bee_id, 500, "dir_exists")
            /\ UNCHANGED reqs
       ELSE /\ reqs' = reqs (+) SetToBag({Req("create_node_dir",
                                              "create_dir_all", bee_id, <<>>)})
            /\ resp' = NoOutcome
    /\ UNCHANGED <<config, bees, queue, dirs, disk, containers, started,
                   ledger, now>>

\* fs::create_dir_all(&node_path).await?: the missing directories of the
\* path are created, the existing ones are left as they are
NodeDirCreateDirAll(r) ==
    /\ r.op = "create_node_dir" /\ r.pc = "create_dir_all"
    /\ \E created \in BOOLEAN :
         IF created
         THEN /\ disk' = disk @@ (get_parent_path(r.id) :> "umask")
                               @@ (get_node_path(r.id) :> "umask")
              /\ reqs' = (reqs (-) SetToBag({r}))
                           (+) SetToBag({Req(r.op, "metadata", r.id, <<>>)})
              /\ resp' = NoOutcome
         ELSE /\ reqs' = reqs (-) SetToBag({r})
              /\ resp' = Outcome(r.op, r.id, 500, "upstream")
              /\ UNCHANGED disk
    /\ UNCHANGED <<config, bees, queue, dirs, containers, started, ledger, now>>

\* fs::metadata(&node_path).await?.permissions()
NodeDirMetadata(r) ==
    /\ r.op = "create_node_dir" /\ r.pc = "metadata"
    /\ \E read \in BOOLEAN :
         IF read /\ Exists(get_node_path(r.id))
         THEN /\ reqs' = (reqs (-) SetToBag({r}))
                           (+) SetToBag({Req(r.op, "set_permissions", r.id, <<>>)})
              /\ resp' = NoOutcome
         ELSE /\ reqs' = reqs (-) SetToBag({r})
              /\ resp' = Outcome(r.op, r.id, 500, "upstream")
    /\ UNCHANGED <<config, bees, queue, dirs, disk, containers, started,
                   ledger, now>>

\* perms.set_mode(0o755); fs::set_permissions(&node_path, perms).await?;
\* Ok(node_path)
NodeDirSetPermissions(r) ==
    /\ r.op = "create_node_dir" /\ r.pc = "set_permissions"
    /\ \E done \in BOOLEAN :
         IF done /\ Exists(get_node_path(r.id))
         THEN /\ disk' = [disk EXCEPT ![get_node_path(r.id)] = "0755"]
              /\ resp' = Outcome(r.op, r.id, 200, "none")
         ELSE /\ resp' = Outcome(r.op, r.id, 500, "upstream")
              /\ UNCHANGED disk
    /\ reqs' = reqs (-) SetToBag({r})
    /\ UNCHANGED <<config, bees, queue, dirs, containers, started, ledger, now>>

\* the caller's future is dropped while the call is suspended
NodeDirDropped(r) ==
    /\ r.op = "create_node_dir"
    /\ reqs' = reqs (-) SetToBag({r})
    /\ resp' = Outcome(r.op, r.id, 408, "timeout")
    /\ UNCHANGED <<config, bees, queue, dirs, disk, containers, started,
                   ledger, now>>

\* fs::remove_dir_all(node_path).await? of bee_fn::delete_bee
RemoveDirAll(bee_id) ==
    /\ Exists(get_node_path(bee_id))
    /\ disk' = [path \in DOMAIN disk \ {get_node_path(bee_id)} |-> disk[path]]
    /\ resp' = Outcome("remove_dir_all", bee_id, 200, "none")
    /\ UNCHANGED <<config, bees, queue, dirs, containers, started, ledger,
                   now, reqs>>

NextStorage ==
    \/ \E bee_id \in StorageIds : CreateNodeDir(bee_id)
    \/ \E r \in InFlight : NodeDirCreateDirAll(r)
    \/ \E r \in InFlight : NodeDirMetadata(r)
    \/ \E r \in InFlight : NodeDirSetPermissions(r)
    \/ \E r \in InFlight : NodeDirDropped(r)
    \/ \E bee_id \in StorageIds : RemoveDirAll(bee_id)

SpecStorage == InitWith(<<>>) /\ [][NextStorage]_vars

(***************************************************************************)
(* The locks of the handlers.  A handler is the sequence of the calls it   *)
(* awaits; before a call it may wait for a lock, which it holds during     *)
(* the call or gives back at once, and it may keep locks it already has.   *)
(* A request in flight carries the calls it still has to make; it is       *)
(* either waiting for the lock of its next call or in that call.           *)
(***************************************************************************)
\* nodes the registry holds when a recreate runs
MaxWaitNodes == 1

\* a call: the lock taken before it ("none" when there is none), whether the
\* guard lives during the call, the locks kept from earlier calls, and
\* whether an error of the call is swallowed (unwrap_or_default)
Step(call, needs, during, keeps, swallow) ==
    [call |-> call, needs |-> needs, during |-> during, keeps |-> keeps,
     swallow |-> swallow]

\* get_bees_col_read: self.db.read().await.collection("bees"); the guard is
\* a temporary of the statement and is gone before the collection is used
RegistryRead(call) == Step(call, "registry_read", FALSE, {}, FALSE)

\* get_bees_col_write: self.db.write().await.collection("bees")
RegistryWrite(call, keeps) == Step(call, "registry_write", FALSE, keeps, FALSE)

\* a call that takes no lock
Plain(call, keeps) == Step(call, "none", FALSE, keeps, FALSE)

\* Docker::create_bee_container: self.docker.lock().await, then create_image
\* and create_container awaited under the one guard
docker_create_bee_container ==
    <<Step("create_image", "docker", TRUE, {}, FALSE),
      Step("create_container", "none", FALSE, {"docker"}, FALSE)>>

\* a recreate_container that takes the runtime mutex itself and keeps it
\* over its three calls, each of which takes the mutex
recreate_container_holding_mutex ==
    <<Step("lock", "docker", TRUE, {}, FALSE),
      Step("stop_container", "docker", TRUE, {"docker"}, TRUE),
      Step("remove_container", "docker", TRUE, {"docker"}, TRUE),
      Step("create_image", "docker", TRUE, {"docker"}, FALSE),
      Step("create_container", "none", FALSE, {"docker"}, FALSE)>>

\* Docker::recreate_container: stop_bee_container and remove_bee_container,
\* each under its own guard and with .unwrap_or_default(), then
\* create_bee_container(..).await?
recreate_container ==
    <<Step("stop_container", "docker", TRUE, {}, TRUE),
      Step("remove_container", "docker", TRUE, {}, TRUE)>>
    \o docker_create_bee_container

\* recreate_container for each of n nodes
RECURSIVE recreate_bee_containers(_)
recreate_bee_containers(n) ==
    IF n = 0 THEN <<>> ELSE recreate_container \o recreate_bee_containers(n - 1)

\* the calls of a handler, in the order it awaits them; n is the number of
\* nodes a recreate finds
Program(op, n) ==
    CASE op = "create" ->
           <<RegistryRead("count_bees"), RegistryRead("get_bees"),
             Plain("get_neighborhood", {}), Plain("create_dir_all", {}),
             Plain("metadata", {}), Plain("set_permissions", {})>>
           \o docker_create_bee_container
           \o <<RegistryRead("count_bees"), RegistryWrite("add_bee", {})>>
      [] op = "get" -> <<RegistryRead("get_bee")>>
      [] op = "list" -> <<RegistryRead("get_bees")>>
      [] op = "request_deletion" ->
           <<RegistryRead("get_bee"),
             Step("insert", "ledger", TRUE, {}, FALSE)>>
      [] op = "delete" ->
           <<RegistryRead("get_bee"),
             Step("ticket_check", "ledger", TRUE, {}, FALSE),
             Plain("remove_dir_all", {"ledger"}),
             RegistryWrite("delete_bee", {"ledger"})>>
      [] op = "recreate" ->
           <<RegistryRead("get_bees")>> \o recreate_bee_containers(n)

WaitOps == {"create", "get", "list", "request_deletion", "delete", "recreate"}

\* the locks request r holds
Held(r) ==
    Head(r.todo).keeps \cup
      (IF r.pc = "call" /\ Head(r.todo).during THEN {Head(r.todo).needs} ELSE {})

\* the locks that keep a request from taking lock
Conflicts(lock) ==
    CASE lock = "none" -> {}
      [] lock = "registry_read" -> {"registry_write"}
      [] lock = "registry_write" -> {"registry_read", "registry_write"}
      [] OTHER -> {lock}

\* the requests that hold a lock request r is waiting for
Blockers(r) ==
    {h \in InFlight : Held(h) \cap Conflicts(Head(r.todo).needs) # {}}

\* lock().await, read().await or write().await returns: the lock is free
Acquire(r) ==
    /\ r.pc = "wait"
    /\ Blockers(r) = {}
    /\ Goto(r, Req(r.op, "call", r.id, r.todo))
    /\ UNCHANGED <<bees, dirs, containers, started, ledger, now>>

\* the call returns: on an error that is not swallowed the handler returns it
\* (`?`), after its last call the handler returns, and otherwise it goes on
\* to its next call; the guards that are not kept are dropped
CallReturns(r) ==
    /\ r.pc = "call"
    /\ \E ok \in BOOLEAN :
         IF ~ok /\ ~Head(r.todo).swallow THEN Return(r, 500, "upstream")
         ELSE IF Len(r.todo) = 1 THEN Return(r, 200, "none")
         ELSE Goto(r, Req(r.op, "wait", r.id, Tail(r.todo)))
    /\ UNCHANGED <<bees, dirs, containers, started, ledger, now>>

\* a request arrives and is suspended before its first call
HandlerArrives(limit, op, n) ==
    /\ Arrives(limit)
    /\ Spawn(Req(op, "wait", n, Program(op, n)))
    /\ UNCHANGED <<bees, dirs, containers, started, ledger, now>>

NextWait ==
    \/ \E op \in WaitOps \ {"recreate"} : HandlerArrives(MaxInFlight, op, 0)
    \/ \E n \in 1..MaxWaitNodes : HandlerArrives(MaxInFlight, "recreate", n)
    \/ \E r \in InFlight : Acquire(r)
    \/ \E r \in InFlight : CallReturns(r)
    \/ \E r \in InFlight : Abandon(r)

SpecWait == InitWith(<<>>) /\ [][NextWait]_vars

(***************************************************************************)
(* The calls of get_dir_id the handlers make.  Storage.parent_dir_capacity *)
(* is a u8 that Config::parse reads with no validation; the node id is the *)
(* id create_bee was given by get_new_bee_id, or the id of the path of     *)
(* delete_bee, which has passed find_bee.                                  *)
(***************************************************************************)
\* ids a request path can carry (Path<u8>): the ends of the u8 range, the
\* ends of the id range and the ids around the first directory boundary
U8 == {0, 1, ParentDirCapacity, ParentDirCapacity + 1, IdRangeEnd - 1,
       IdRangeEnd, 255}

\* get_dir_id on u8: a division by zero panics; bee_id - 1 on 0 panics when
\* the build checks overflow and wraps when it does not
get_dir_id_u8(cfg, bee_id, checked) ==
    IF bee_id = 0 /\ checked THEN Err("attempt to subtract with overflow")
    ELSE IF cfg.parent_dir_capacity = 0 THEN Err("attempt to divide by zero")
    ELSE Ok(get_dir_id_in(cfg, bee_id))

\* the call of get_dir_id, with what it was given and what it returned
DirIdCall(op, bee_id, checked) ==
    /\ resp' = [op |-> "get_dir_id", handler |-> op, id |-> bee_id,
                capacity |-> config.parent_dir_capacity,
                dir_id |-> get_dir_id_u8(config, bee_id, checked)]
    /\ UNCHANGED <<config, bees, queue, dirs, disk, containers, started,
                   ledger, now, reqs>>

\* create_bee: get_new_bee_id, then create_node_dir -> get_node_path ->
\* get_parent_dir_name -> get_dir_id
CreateGetDirId ==
    LET new_bee_id == get_new_bee_id(bees)
    IN  /\ ensure_capacity(bees)
        /\ new_bee_id.ok
        /\ \E checked \in BOOLEAN : DirIdCall("create", new_bee_id.val, checked)

\* delete_bee: find_bee, the ticket check, then bee_fn::delete_bee ->
\* get_node_path -> get_parent_dir_name -> get_dir_id
DeleteGetDirId(bee_id) ==
    /\ find_bee(bees, bee_id, TRUE).ok
    /\ \E checked \in BOOLEAN : DirIdCall("delete", bee_id, checked)

\* the registry holds the nodes 1..n, and the configuration is one that
\* Config::parse accepts: any u8 capacity the bound allows
InitDirId ==
    /\ \E capacity \in 0..MaxDirCapacity :
          config = [ParsedConfig EXCEPT !.parent_dir_capacity = capacity]
    /\ \E n \in 0..(IdRangeEnd - 1) : bees = Provisioned(n)
    /\ queue = <<>>
    /\ dirs = {}
    /\ disk = <<>>
    /\ containers = {}
    /\ started = {}
    /\ ledger = <<>>
    /\ now = 0
    /\ reqs = EmptyBag
    /\ resp = [op |-> "none", id |-> 0]

NextDirId ==
    \/ CreateGetDirId
    \/ \E bee_id \in U8 : DeleteGetDirId(bee_id)

SpecDirId == InitDirId /\ [][NextDirId]_vars

(***************************************************************************)
(* Claims.                                                                 *)
(***************************************************************************)
RegisteredIds == {bees[i].id : i \in 1..Len(bees)}

\* C1: no two records of the registry have the same id, under any
\* interleaving of create requests and confirmed deletes.
C1_UniqueIds ==
    \A i, j \in 1..Len(bees) : i # j => bees[i].id # bees[j].id

\* C2: when the registry does not hold all of 1..99, get_new_bee_id returns
\* the smallest id of 1..99 that no record holds (99 when 1..98 are held),
\* and never fails.
C2_SmallestFreeId ==
    LET free == (1..99) \ RegisteredIds
    IN  free # {} =>
          /\ resp.err # "id_unavailable"
          /\ \A r \in InFlight :
               r.pc = "get_neighborhood" =>
                 /\ r.id \in free
                 /\ \A other \in free : r.id <= other

\* C3: after a capacity check that passed, with no other writer, the id
\* allocation of create_bee does not fail.
C3_IdAvailableAfterCapacityCheck ==
    ~(resp.op = "create" /\ resp.err = "id_unavailable")

\* C4: the registry never holds more than 99 records.
C4_AtMostCapacity == db_count_bees(bees) <= 99

\* the ids a node may have
NodeIds == 1..99

\* the ids this step is about: those of the requests in flight before or
\* after it, and that of the response it sends
Touched ==
    {r.id : r \in BagToSet(reqs) \cup BagToSet(reqs')} \cup {resp'.id}

\* the ledger holds a ticket of id that is less than 30 seconds old
FreshTicket(id) == id \in DOMAIN ledger /\ now - ledger[id] < 30

\* the delete request of id, before and after its ticket check, and after the
\* removal of the directory
AtCheck(id) == Req("delete", "lock", id, <<>>)
PastCheck(id) == Req("delete", "remove_dir_all", id, <<>>)
AtRecord(id) == Req("delete", "db_delete", id, <<>>)

\* this step takes a delete request of id through its ticket check
Accepts(id) == CopiesIn(PastCheck(id), reqs') > CopiesIn(PastCheck(id), reqs)

\* this step answers a delete request of id with ConfirmationRequired
Rejects(id) == resp' = Outcome("delete", id, 400, "confirmation")

\* this step ends a confirmed delete of id with success
Deleted(id) == resp' = Outcome("delete", id, 200, "none")

\* a record leaves the registry in this step
RecordLeaves ==
    ~(Len(bees') >= Len(bees) /\ SubSeq(bees', 1, Len(bees)) = bees)

\* C5: a record leaves the registry, and a node directory is removed, only in
\* a step of a delete_bee call that found a ticket of that id less than 30
\* seconds old at its ticket check; no other step removes a record or a
\* directory.
C5_DestroyedOnlyByConfirmedDelete ==
    [][/\ \A r \in DOMAIN reqs' :
            (r.op = "delete" /\ CopiesIn(r, reqs') > CopiesIn(r, reqs)) =>
              /\ r.pc = "remove_dir_all" => FreshTicket(r.id)
              /\ r.pc = "db_delete" => BagIn(PastCheck(r.id), reqs)
       /\ \A id \in dirs \ dirs' : BagIn(PastCheck(id), reqs)
       /\ RecordLeaves =>
            \E id \in RegisteredIds :
              /\ BagIn(AtRecord(id), reqs)
              /\ Deleted(id)
              /\ Len(bees') = Len(bees) - 1
      ]_vars

\* a confirmed delete took the record and the directory of a node
C5_Witness ==
    \E id \in ReqIds :
      /\ resp = Outcome("delete", id, 200, "none")
      /\ id \notin RegisteredIds
      /\ id \notin dirs

\* C6: the confirm call of an existing node fails with ConfirmationRequired
\* exactly when the ledger has no ticket of the id or the ticket is 30
\* seconds old or older; the error is the same in both cases.
C6_ConfirmationRequired ==
    [][/\ \A id \in Touched :
            Rejects(id) => (id \notin DOMAIN ledger \/ now - ledger[id] >= 30)
       /\ \A id \in Touched :
            Accepts(id) => (id \in DOMAIN ledger /\ now - ledger[id] < 30)
       /\ \A id \in Touched :
            (/\ CopiesIn(AtCheck(id), reqs') < CopiesIn(AtCheck(id), reqs)
             /\ resp'.err # "timeout")
              => IF id \notin DOMAIN ledger \/ now - ledger[id] >= 30
                 THEN Rejects(id) /\ ~Accepts(id)
                 ELSE Accepts(id) /\ resp' = NoOutcome
      ]_vars

\* a confirm call was rejected on a ticket exactly 30 seconds old
C6_Witness ==
    \E id \in ReqIds :
      /\ resp = Outcome("delete", id, 400, "confirmation")
      /\ id \in DOMAIN ledger
      /\ now - ledger[id] = 30

\* C7: a delete_bee call on a registered node that comes less than 30 seconds
\* after request_bee_deletion passes the ticket check, and when it has
\* succeeded get(id) is absent, the directory is gone, the count is one less
\* and the ledger has no ticket of the id.
C7_ConfirmedDeleteRemovesNode ==
    [][/\ \A id \in Touched :
            (/\ CopiesIn(AtCheck(id), reqs') < CopiesIn(AtCheck(id), reqs)
             /\ resp'.err # "timeout"
             /\ FreshTicket(id))
              => Accepts(id)
       /\ \A id \in Touched :
            Deleted(id) =>
              /\ ~db_get_bee(bees', id).some
              /\ id \notin dirs'
              /\ db_count_bees(bees') = db_count_bees(bees) - 1
              /\ id \notin DOMAIN ledger'
      ]_vars

\* C8: after every successful confirmed delete of a node, the runtime holds
\* no container of it, its directory does not exist and the registry has no
\* record of it.
C8_DeleteRemovesContainer ==
    \A id \in NodeIds :
      resp = Outcome("delete", id, 200, "none") =>
        /\ id \notin containers
        /\ id \notin dirs
        /\ id \notin RegisteredIds

\* C9: a ticket leaves the ledger only in the step that ends a confirmed
\* delete of its id with success; a delete that fails leaves the ticket with
\* the timestamp it had, and nothing changes the timestamp while the delete
\* is under way.
C9_TicketKeptOnFailure ==
    [][\A id \in DOMAIN ledger :
         /\ id \notin DOMAIN ledger' => Deleted(id)
         /\ (resp'.op = "delete" /\ resp'.id = id /\ resp'.status # 200)
              => (id \in DOMAIN ledger' /\ ledger'[id] = ledger[id])
         /\ (BagIn(PastCheck(id), reqs) \/ BagIn(AtRecord(id), reqs))
              => (id \in DOMAIN ledger' => ledger'[id] = ledger[id])
      ]_vars

\* a confirmed delete failed and its ticket is still good for a second
\* confirm call
C9_Witness ==
    \E id \in ReqIds :
      /\ resp = Outcome("delete", id, 500, "upstream")
      /\ FreshTicket(id)

\* C10 as stated: request_bee_deletion records the ticket {id -> now} and
\* returns success for every id, registered or not.
C10_Unconditional ==
    resp.op = "request_deletion" /\ resp.err # "timeout" =>
      /\ resp.status = 200
      /\ resp.id \in DOMAIN ledger
      /\ ledger[resp.id] = now

\* C10: request_bee_deletion first looks the node up.  For an id that has no
\* record it returns NotFound and the ledger is unchanged; for a registered
\* id it records the ticket {id -> now}, over a ticket that exists, and
\* returns success.
C10_RecordsTicketOfRegisteredNode ==
    [][\A id \in Touched :
         LET waiting == Req("request_deletion", "lock", id, <<>>)
         IN  /\ resp' = Outcome("request_deletion", id, 404, "not_found")
                  => (~db_get_bee(bees, id).some /\ ledger' = ledger)
             /\ CopiesIn(waiting, reqs') > CopiesIn(waiting, reqs)
                  => db_get_bee(bees, id).some
             /\ (/\ CopiesIn(waiting, reqs') < CopiesIn(waiting, reqs)
                 /\ resp'.err # "timeout")
                  => /\ resp' = Outcome("request_deletion", id, 200, "none")
                     /\ ledger' = ledger_insert(ledger, id, now)
                     /\ ledger'[id] = now
      ]_vars

\* a request of a registered node was answered with success after the clock
\* had advanced, and the ticket carries the time of the request
C10_Witness ==
    \E id \in ReqIds :
      /\ resp = Outcome("request_deletion", id, 200, "none")
      /\ ledger[id] = now
      /\ now > 0

\* this step ends a deletion request of id with success
Requested(id) == resp' = Outcome("request_deletion", id, 200, "none")

\* C11: a deletion request for an id that has a ticket replaces the
\* timestamp of the ticket by the time of the request and adds no second
\* ticket, and a confirm call is accepted exactly when the timestamp the
\* ledger holds is less than 30 seconds old, whatever the age of the
\* tickets before it.
C11_RequestRefreshesWindow ==
    [][\A id \in Touched :
         /\ Requested(id) =>
              /\ DOMAIN ledger' = DOMAIN ledger \cup {id}
              /\ ledger'[id] = now
              /\ \A k \in DOMAIN ledger \ {id} : ledger'[k] = ledger[k]
         /\ Accepts(id) => (id \in DOMAIN ledger /\ now - ledger[id] < 30)
         /\ (/\ CopiesIn(AtCheck(id), reqs') < CopiesIn(AtCheck(id), reqs)
             /\ resp'.err # "timeout"
             /\ id \in DOMAIN ledger
             /\ now - ledger[id] < 30)
              => Accepts(id)
      ]_vars

\* the deletion of node 1 was requested at 0 and again at 15, and a confirm
\* call at 30 passed the ticket check
C11_Witness ==
    /\ 1 \in RegisteredIds
    /\ now = 30
    /\ ledger[1] = 15
    /\ BagIn(PastCheck(1), reqs)

\* the create request before its id is allocated, and at the count_bees call
\* of the capacity error
AtAllocation == Req("create", "get_new_bee_id", 0, <<>>)
AtCapacityError == Req("create", "count_bees", 0, <<>>)

\* the registry, the directories, the containers and the ledger are as they
\* were
NoSideEffect ==
    /\ bees' = bees
    /\ dirs' = dirs
    /\ containers' = containers
    /\ started' = started
    /\ ledger' = ledger

\* C12: a create request that finds 99 records (or more) goes to the
\* capacity error and never to the id allocation or the neighborhood lookup,
\* and its steps change neither the registry, the directories, the
\* containers nor the ledger.
C12_CapacityErrorBeforeSideEffects ==
    [][/\ CopiesIn(AtAllocation, reqs') > CopiesIn(AtAllocation, reqs)
            => db_count_bees(bees) < 99
       /\ CopiesIn(AtCapacityError, reqs') > CopiesIn(AtCapacityError, reqs)
            => (db_count_bees(bees) >= 99 /\ NoSideEffect)
       /\ CopiesIn(AtCapacityError, reqs') < CopiesIn(AtCapacityError, reqs)
            => /\ reqs' = reqs (-) SetToBag({AtCapacityError})
               /\ resp'.op = "create"
               /\ resp'.err \in {"capacity", "upstream", "timeout"}
               /\ resp'.err = "capacity" => resp'.status = 400
               /\ NoSideEffect
      ]_vars

\* a create request was answered with the capacity error at 99 records or
\* more
C12_Witness ==
    /\ resp = Outcome("create", 0, 400, "capacity")
    /\ db_count_bees(bees) >= 99

\* C13: whenever create_bee has returned success for a node, the container
\* of the node has been started.
C13_CreatedContainerIsStarted ==
    \A id \in NodeIds :
      resp = Outcome("create", id, 200, "none") => id \in started

\* the create request of node id at the given call
Creating(pc, id) == Req("create", pc, id, <<>>)

\* a record is added to the registry in this step
RecordAdded == Len(bees') = Len(bees) + 1 /\ SubSeq(bees', 1, Len(bees)) = bees

\* C14: a record of node k is added only by a create request that came to
\* the registry write through the creation of the directory of k and then
\* the creation of the container of k, both with success; a request that
\* fails or is dropped on the way adds no record.
C14_DirectoryContainerRecord ==
    [][/\ \A r \in DOMAIN reqs' :
            (r.op = "create" /\ CopiesIn(r, reqs') > CopiesIn(r, reqs)) =>
              /\ r.pc = "set_permissions" =>
                   (BagIn(Creating("create_dir_all", r.id), reqs) /\ r.id \in dirs')
              /\ r.pc = "create_bee_container" =>
                   BagIn(Creating("set_permissions", r.id), reqs)
              /\ r.pc = "save_bee" =>
                   /\ BagIn(Creating("create_bee_container", r.id), reqs)
                   /\ r.id \in containers'
              /\ r.pc = "add_bee" => BagIn(Creating("save_bee", r.id), reqs)
       /\ bees' # bees /\ ~RecordLeaves =>
            /\ RecordAdded
            /\ BagIn(Creating("add_bee", bees'[Len(bees')].id), reqs)
            /\ resp' = Outcome("create", bees'[Len(bees')].id, 200, "none")
      ]_vars

\* a create request returned success: the node has its directory, its
\* container and its record
C14_Witness ==
    \E id \in ReqIds :
      /\ resp = Outcome("create", id, 200, "none")
      /\ id \in dirs
      /\ id \in containers
      /\ id \in RegisteredIds

\* C15: when a create request fails or is dropped after the directory of
\* its node was created, the step changes neither the directories, the
\* containers nor the registry, and the request is gone: nothing is undone
\* and nothing is tried again.
C15_NoRollback ==
    [][\A r \in DOMAIN reqs :
         (/\ r.op = "create"
          /\ r.pc \in {"set_permissions", "create_bee_container", "save_bee", "add_bee"}
          /\ CopiesIn(r, reqs') < CopiesIn(r, reqs)
          /\ resp' # NoOutcome
          /\ resp'.status # 200)
           => /\ dirs' = dirs
              /\ containers' = containers
              /\ bees' = bees
              /\ reqs' = reqs (-) SetToBag({r})
              /\ resp'.op = "create" /\ resp'.id = r.id
      ]_vars

\* the registry write of a create request failed: the directory and the
\* container of the node are there and the registry has no record of it
C15_Witness ==
    \E id \in ReqIds :
      /\ resp = Outcome("create", id, 500, "upstream")
      /\ id \in dirs
      /\ id \in containers
      /\ id \notin RegisteredIds

\* C16: a create request is given the smallest id that has no record, the
\* same id as long as the registry is the same; when the directory of that
\* id exists the request ends at the directory test of create_node_dir (or
\* before it, when the neighborhood lookup fails or the request is dropped):
\* it creates no container and no record.
C16_DirectoryAlreadyExists ==
    [][/\ \A r \in DOMAIN reqs' :
            (/\ r.op = "create" /\ r.pc = "get_neighborhood"
             /\ CopiesIn(r, reqs') > CopiesIn(r, reqs))
              => /\ r.id \notin RegisteredIds
                 /\ \A smaller \in 1..(r.id - 1) : smaller \in RegisteredIds
       /\ \A r \in DOMAIN reqs :
            (/\ r.op = "create" /\ r.pc = "get_neighborhood"
             /\ r.id \in dirs
             /\ CopiesIn(r, reqs') < CopiesIn(r, reqs))
              => /\ reqs' = reqs (-) SetToBag({r})
                 /\ resp'.op = "create" /\ resp'.id = r.id /\ resp'.status # 200
                 /\ resp'.err \in {"dir_exists", "upstream", "timeout"}
                 /\ NoSideEffect
      ]_vars

\* a create request failed on the directory an earlier request had left
\* behind: the node has a directory, no container and no record
C16_Witness ==
    \E id \in ReqIds :
      /\ resp = Outcome("create", id, 500, "dir_exists")
      /\ id \in dirs
      /\ id \notin containers
      /\ id \notin RegisteredIds

\* a list of records is in ascending order of id
Ascending(list) ==
    \A i, j \in 1..Len(list) : i < j => list[i].id <= list[j].id

\* C17: get_bees returns the records in ascending order of id, whatever the
\* order in which they were added, on the real backend and on the test
\* double alike.
C17_ListSortedById ==
    /\ Ascending(db_get_bees(bees))
    /\ Len(db_get_bees(bees)) = db_count_bees(bees)
    /\ Ascending(mock_get_bees(queue))
    /\ Len(mock_get_bees(queue)) = mock_count_bees(queue)

\* the ids held by a backend, and whether it holds no id twice
IdsOf(list) == {list[i].id : i \in 1..Len(list)}

DistinctIds(list) == \A i, j \in 1..Len(list) : i # j => list[i].id # list[j].id

\* the keys a caller can ask for: u8 values around the ids in use
RegistryKeys == 0..(MaxRegistryId + 1)

\* get and count of the real backend are keyed by the id field
DatabaseKeyed(col) ==
    /\ \A k \in RegistryKeys :
          /\ db_get_bee(col, k).some <=> k \in IdsOf(col)
          /\ db_get_bee(col, k).some => db_get_bee(col, k).val.id = k
    /\ db_count_bees(col) = Cardinality(IdsOf(col))

\* get and count of the test double are keyed by the id field
MockKeyed(q) ==
    /\ \A k \in RegistryKeys :
          /\ mock_get_bee(q, k).some <=> k \in IdsOf(q)
          /\ mock_get_bee(q, k).some => mock_get_bee(q, k).val.id = k
    /\ mock_count_bees(q) = Cardinality(IdsOf(q))

\* C18: while the calls are on distinct ids, get(id) returns the record
\* whose id field is id when one is registered and nothing otherwise,
\* count() is the number of registered records, and delete(id) of a
\* registered id makes get(id) absent and lowers count() by exactly one,
\* on both backends.
C18_KeySemantics ==
    [][/\ DistinctIds(bees') => DatabaseKeyed(bees')
       /\ DistinctIds(queue') => MockKeyed(queue')
       /\ (/\ resp'.op = "delete_bee" /\ DistinctIds(bees)
           /\ resp'.id \in IdsOf(bees))
             => /\ ~db_get_bee(bees', resp'.id).some
                /\ db_count_bees(bees') = db_count_bees(bees) - 1
       /\ (/\ resp'.op = "delete_bee" /\ DistinctIds(queue)
           /\ resp'.id \in IdsOf(queue))
             => /\ ~mock_get_bee(queue', resp'.id).some
                /\ mock_count_bees(queue') = mock_count_bees(queue) - 1
      ]_vars

\* the part of C18 that is about the real backend
C18_DatabaseKeySemantics ==
    [][/\ DistinctIds(bees') => DatabaseKeyed(bees')
       /\ (/\ resp'.op = "delete_bee" /\ DistinctIds(bees)
           /\ resp'.id \in IdsOf(bees))
             => /\ ~db_get_bee(bees', resp'.id).some
                /\ db_count_bees(bees') = db_count_bees(bees) - 1
      ]_vars

\* two Option<BeeData> results are the same result
SameOption(a, b) == /\ a.some = b.some
                    /\ a.some => a.val = b.val

\* C19: after every sequence of add_bee and delete_bee calls, adds of a
\* duplicate id included, every get_bee, get_bees and count_bees call
\* returns the same result on MockDbService as on Database.
C19_BackendsAgree ==
    /\ \A k \in RegistryKeys : SameOption(mock_get_bee(queue, k), db_get_bee(bees, k))
    /\ mock_get_bees(queue) = db_get_bees(bees)
    /\ mock_count_bees(queue) = db_count_bees(bees)

\* the calls that are executing their operation on the backing store
OnStore == [r \in {x \in InFlight : x.pc = "store"} |-> reqs[r]]

\* C20: while an add_bee or a delete_bee is executing on the store no
\* other registry call is executing on it (get_bee, get_bees and
\* count_bees calls may execute together).
C20_WriteExcludesAll ==
    \A r \in DOMAIN OnStore :
        r.op \in WriteOps => BagCardinality(OnStore) = 1

\* the last component of a path: the characters after its last separator
FileName(path) ==
    LET seps == {i \in 1..Len(path) : path[i] = "/"}
    IN  IF seps = {} THEN path
        ELSE SubSeq(path, (CHOOSE i \in seps : \A j \in seps : j <= i) + 1,
                    Len(path))

\* C21: under one configuration, the resources derived for two distinct
\* ids of 1..99 never collide: the node paths differ, the API ports differ,
\* the P2P ports differ (whenever the templates are valid, so that they are
\* derived at all) and the container names differ.
C21_DerivedResourcesDisjoint ==
    [][(/\ resp.op = "derive" /\ resp'.op = "derive" /\ resp.id # resp'.id)
         => /\ resp.name # resp'.name
            /\ (resp.api_port.ok /\ resp'.api_port.ok)
                 => resp.api_port.val # resp'.api_port.val
            /\ (resp.p2p_port.ok /\ resp'.p2p_port.ok)
                 => resp.p2p_port.val # resp'.p2p_port.val
            /\ (resp.node_path.ok /\ resp'.node_path.ok)
                 => /\ resp.node_path.val # resp'.node_path.val
                    /\ FileName(resp.node_path.val)
                         # FileName(resp'.node_path.val)
      ]_vars

\* two ids have been derived under valid templates
C21_Witness ==
    /\ resp.op = "derive" /\ resp.id = 99
    /\ resp.api_port.ok /\ resp.p2p_port.ok /\ resp.node_path.ok
    /\ config.parent_dir_capacity = MaxDirCapacity

\* the two-digit decimal form of a number of 0..99
Pad2(n) == <<Digits[(n \div 10) + 1], Digits[(n % 10) + 1]>>

DecimalDigits == {"0", "1", "2", "3", "4", "5", "6", "7", "8", "9"}

\* one to three decimal digits followed by the placeholder xx
DigitsThenPlaceholder(template) ==
    \E n \in 1..3 :
        /\ Len(template) = n + 2
        /\ \A i \in 1..n : template[i] \in DecimalDigits
        /\ template[n + 1] = "x" /\ template[n + 2] = "x"

\* what get_port owes for a template and an id
PortAsClaimed(template, id, port) ==
    /\ port.ok <=> DigitsThenPlaceholder(template)
    /\ port.ok => port.val = SubSeq(template, 1, Len(template) - 2) \o Pad2(id)
    /\ ~port.ok => port.val = "invalid_template"
    /\ (id = 5 /\ template = <<"1", "7", "x", "x">>)
         => port = Ok(<<"1", "7", "0", "5">>)
    /\ template \in {<<"1", "7", "0", "5">>, <<"1", "x", "7", "0">>,
                      <<"1", "x", "x", "0">>, <<"t", "e", "s", "t">>,
                      <<"1", "5", "3", "4", "0", "x", "x">>}
         => port = Err("invalid_template")

\* C22: get_port(id, template) succeeds exactly when the template is one to
\* three decimal digits followed by xx, and then returns those digits
\* followed by the two-digit zero-padded id (id 5 and 17xx give 1705);
\* every other template (1705, 1x70, 1xx0, 15340xx, test among them) fails
\* with the invalid-template error, on every call.
C22_PortDerivation ==
    resp.op = "derive" =>
        /\ PortAsClaimed(config.api_port, resp.id, resp.api_port)
        /\ PortAsClaimed(config.p2p_port, resp.id, resp.p2p_port)

\* id 5 has been resolved against 17xx
C22_Witness ==
    /\ resp.op = "derive" /\ resp.id = 5
    /\ config.api_port = <<"1", "7", "x", "x">>
    /\ resp.api_port.ok

\* a rejected template has been put to get_port
C22_WitnessInvalid ==
    /\ resp.op = "derive" /\ resp.id = 5
    /\ config.api_port = <<"1", "x", "x", "0">>
    /\ ~resp.api_port.ok

\* the occurrences of xx that a substitution from the left replaces: a
\* pair of x that an even number of x precede within its run of x
Placeholders(template) ==
    {i \in 1..(Len(template) - 1) :
        /\ template[i] = "x" /\ template[i + 1] = "x"
        /\ LET others == {j \in 1..(i - 1) : template[j] # "x"}
               start == IF others = {} THEN 0
                        ELSE CHOOSE j \in others : \A k \in others : k <= j
           IN  (i - 1 - start) % 2 = 0}

\* the template with every placeholder replaced by two characters
Substituted(template, pad) ==
    [i \in 1..Len(template) |->
        IF i \in Placeholders(template) THEN pad[1]
        ELSE IF i - 1 \in Placeholders(template) THEN pad[2]
        ELSE template[i]]

\* C23: for every id of 1..99 and every capacity c >= 1 the parent index
\* is ((id - 1) div c) + 1, so that ids 1..c are in parent 1, c+1..2c in
\* parent 2, and id 99 with c = 4 in parent 25; and the node path is the
\* root joined with the template in which xx is replaced by the
\* zero-padded parent index, joined with node_ and the zero-padded id.
C23_DirectoryDerivation ==
    resp.op = "derive" =>
        LET c == config.parent_dir_capacity
            id == resp.id
        IN  /\ resp.dir_id = ((id - 1) \div c) + 1
            /\ (resp.dir_id - 1) * c < id /\ id <= resp.dir_id * c
            /\ (c = 4 /\ id \in {1, 4}) => resp.dir_id = 1
            /\ (c = 4 /\ id = 5) => resp.dir_id = 2
            /\ (c = 4 /\ id = 99) => resp.dir_id = 25
            /\ (c = 3 /\ id = 3) => resp.dir_id = 1
            /\ (c = 3 /\ id = 4) => resp.dir_id = 2
            /\ resp.node_path.ok =>
                 resp.node_path.val =
                    join(join(config.root_path,
                              Substituted(config.parent_dir_format,
                                          Pad2(resp.dir_id))),
                         <<"n", "o", "d", "e", "_">> \o Pad2(id))
            /\ (/\ config.parent_dir_format
                      = <<"s", "w", "a", "r", "m", "_", "x", "x">>
                /\ c = 4 /\ id = 99)
                 => resp.node_path
                     = Ok(<<"/", "m", "/", "s", "w", "a", "r", "m", "_", "2",
                            "5", "/", "n", "o", "d", "e", "_", "9", "9">>)

\* node 99 has been placed under capacity 4 and the template swarm_xx
C23_Witness ==
    /\ resp.op = "derive" /\ resp.id = 99 /\ resp.dir_id = 25
    /\ config.parent_dir_format = <<"s", "w", "a", "r", "m", "_", "x", "x">>
    /\ resp.node_path.ok

\* C24: create_node_dir(id) fails with the already-exists error exactly
\* when the node path exists as the call starts, and then changes nothing
\* on disk; a call that returns the path has left the node directory, with
\* its parent, on disk with mode 0o755; a parent directory that exists and
\* holds other nodes is no reason to fail.
C24_CreateNodeDir ==
    [][/\ (resp'.op = "create_node_dir" /\ resp'.err = "dir_exists")
            => /\ Exists(get_node_path(resp'.id))
               /\ disk' = disk /\ reqs' = reqs
       /\ \A r \in DOMAIN reqs' :
            (/\ r.op = "create_node_dir" /\ r.pc = "create_dir_all"
             /\ CopiesIn(r, reqs') > CopiesIn(r, reqs))
              => /\ ~Exists(get_node_path(r.id))
                 /\ disk' = disk
       /\ (resp'.op = "create_node_dir" /\ resp'.status = 200)
            => /\ get_node_path(resp'.id) \in DOMAIN disk'
               /\ disk'[get_node_path(resp'.id)] = "0755"
               /\ get_parent_path(resp'.id) \in DOMAIN disk'
               /\ \A path \in DOMAIN disk \ {get_node_path(resp'.id)} :
                     path \in DOMAIN disk' /\ disk'[path] = disk[path]
      ]_vars

\* node 1 has been created in the parent directory that holds node 2
C24_Witness ==
    /\ resp = Outcome("create_node_dir", 1, 200, "none")
    /\ Exists(get_node_path(2))
    /\ get_parent_path(1) = get_parent_path(2)

\* a call has been refused because the path exists
C24_WitnessExists ==
    /\ resp = Outcome("create_node_dir", 1, 500, "dir_exists")
    /\ Exists(get_node_path(1))

\* a request leaves the position it is at, or a request arrives at one
Leaves(r) == CopiesIn(r, reqs') < CopiesIn(r, reqs)

Enters(r) == CopiesIn(r, reqs') > CopiesIn(r, reqs)

\* the request r is dropped at the call it is suspended at
Dropped(r) ==
    /\ resp' = Outcome(r.op, r.id, 408, "timeout")
    /\ reqs' = reqs (-) SetToBag({r})

\* C25: for the node at the head of a recreate, the stop is followed by
\* the remove and the remove by the create whatever the outcome of the stop
\* and of the remove (no error of theirs is returned); the create is run
\* once, and its result is the result: its failure is returned, and after
\* its success the container exists and the handler goes on to the next
\* node or returns success.  No step changes the registry, the directories
\* or the ledger.  (A request may be dropped at any of the three calls.)
C25_RecreateStopRemoveCreate ==
    [][\A r \in DOMAIN reqs :
         (r.op = "recreate" /\ Leaves(r)) =>
            /\ bees' = bees /\ dirs' = dirs /\ ledger' = ledger
            /\ r.pc \in {"stop", "remove", "create"}
            /\ r.pc = "stop" =>
                 \/ Dropped(r) /\ containers' = containers
                 \/ /\ reqs' = (reqs (-) SetToBag({r}))
                              (+) SetToBag({Req("recreate", "remove", 0, r.todo)})
                    /\ resp' = NoOutcome
                    /\ containers' = containers
                    /\ started' \in {started, started \ {Head(r.todo)}}
            /\ r.pc = "remove" =>
                 \/ Dropped(r) /\ containers' = containers
                 \/ /\ reqs' = (reqs (-) SetToBag({r}))
                              (+) SetToBag({Req("recreate", "create", 0, r.todo)})
                    /\ resp' = NoOutcome
                    /\ containers' \in {containers, containers \ {Head(r.todo)}}
            /\ r.pc = "create" =>
                 \/ Dropped(r) /\ containers' = containers
                 \/ /\ resp' = Outcome("recreate", 0, 500, "upstream")
                    /\ reqs' = reqs (-) SetToBag({r})
                    /\ containers' = containers
                 \/ /\ containers' = containers \cup {Head(r.todo)}
                    /\ IF Len(r.todo) = 1
                       THEN /\ resp' = Outcome("recreate", 0, 200, "none")
                            /\ reqs' = reqs (-) SetToBag({r})
                       ELSE /\ resp' = NoOutcome
                            /\ reqs' = (reqs (-) SetToBag({r}))
                                 (+) SetToBag({Req("recreate", "stop", 0,
                                                   Tail(r.todo))})
      ]_vars

\* the create of a node is about to run although neither the stop nor the
\* remove took effect: its container is still there, started
C25_Witness ==
    \E r \in InFlight :
        /\ r.op = "recreate" /\ r.pc = "create"
        /\ Head(r.todo) \in started /\ Head(r.todo) \in containers

\* C26: every container specification binds the API port of the node to
\* 127.0.0.1 and its P2P port to 0.0.0.0, each with the derived port as
\* host port, has the restart policy unless-stopped and mounts the data
\* directory of the node on the fixed data path of the container.
C26_ContainerSpecification ==
    resp.op = "get_container_config" =>
        LET api_port == SubSeq(config.api_port, 1, Len(config.api_port) - 2)
                         \o Pad2(resp.id)
            p2p_port == SubSeq(config.p2p_port, 1, Len(config.p2p_port) - 2)
                         \o Pad2(resp.id)
            bindings == resp.val.port_bindings
        IN  /\ api_port \in DOMAIN bindings
            /\ bindings[api_port]
                 = [host_port |-> api_port, host_ip |-> "127.0.0.1"]
            /\ p2p_port \in DOMAIN bindings
            /\ bindings[p2p_port]
                 = [host_port |-> p2p_port, host_ip |-> "0.0.0.0"]
            /\ resp.val.restart_policy = "unless-stopped"
            /\ resp.val.binds = <<[host |-> get_node_path(resp.id),
                                   container |-> "/home/bee/.bee"]>>

\* the same, for the configurations in which the two templates differ
C26_DistinctTemplates ==
    config.api_port # config.p2p_port => C26_ContainerSpecification

\* C27: a response that reports a capacity failure (of the first check or
\* of the check inside save_bee), an id-allocation failure or a template
\* failure is a client error (4xx); an unknown node id is answered 404;
\* and a server error (5xx) reports a failure of the registry, the file
\* system, the runtime or the neighborhood lookup, and nothing else.
C27_ErrorKindsMapToStatus ==
    /\ resp.err \in {"capacity", "id_unavailable", "invalid_template"}
         => resp.status \in 400..499
    /\ resp.err = "not_found" => resp.status = 404
    /\ resp.status \in 500..599 => resp.err \in {"upstream", "dir_exists"}

\* the number of records of a collection that are equal to rec
CountOf(rec, col) == Cardinality({i \in 1..Len(col) : col[i] = rec})

\* C28: a record is created by a successful provisioning and removed by a
\* confirmed delete of its id, and no other step changes it: every record
\* is still there, field for field, after a step that is not the confirmed
\* delete of its id, and every record that is there after a step was there
\* before it unless the step is the successful provisioning of its id.
C28_RecordImmutable ==
    [][/\ \A i \in 1..Len(bees) :
            \/ CountOf(bees[i], bees') = CountOf(bees[i], bees)
            \/ /\ resp' = Outcome("delete", bees[i].id, 200, "none")
               /\ CountOf(bees[i], bees') = CountOf(bees[i], bees) - 1
            \/ /\ resp' = Outcome("create", bees[i].id, 200, "none")
               /\ CountOf(bees[i], bees') = CountOf(bees[i], bees) + 1
       /\ \A j \in 1..Len(bees') :
            \/ CountOf(bees'[j], bees) > 0
            \/ resp' = Outcome("create", bees'[j].id, 200, "none")
      ]_vars

\* a recreate has run to its end over a registry that holds a record
C28_Witness ==
    /\ resp = Outcome("recreate", 0, 200, "none")
    /\ Len(bees) > 0

\* the create request of node id suspended at the neighborhood lookup
AtLookup(id) == Req("create", "get_neighborhood", id, <<>>)

\* C29: the step of a create request at the neighborhood lookup changes
\* neither the registry, the directories, the containers nor the ledger, and
\* neither does the id allocation before it; the lookup is one call: the
\* request either goes on to the creation of its directory or returns, and
\* after a failed lookup (500) it is gone, with no second attempt.
C29_LookupFailureAborts ==
    [][\A r \in InFlight :
         /\ r.op = "create" /\ r.pc \in {"get_new_bee_id", "get_neighborhood"}
         /\ Leaves(r)
         => /\ NoSideEffect
            /\ r.pc = "get_neighborhood"
                 => \/ reqs' = (reqs (-) SetToBag({r})) (+)
                                 SetToBag({Req("create", "create_dir_all", r.id, <<>>)})
                    \/ /\ reqs' = reqs (-) SetToBag({r})
                       /\ resp' \in {Outcome("create", r.id, 500, "upstream"),
                                     Outcome("create", r.id, 500, "dir_exists"),
                                     Outcome("create", r.id, 408, "timeout")}
      ]_vars

\* the lookup of the first node has failed: the request is gone and nothing
\* was created
C29_Witness ==
    /\ resp = Outcome("create", 1, 500, "upstream")
    /\ reqs = EmptyBag
    /\ bees = <<>> /\ dirs = {} /\ containers = {}

\* C30: the step in which a confirm call is rejected (400, confirmation
\* required) leaves the registry, the directories, the containers and the
\* whole ledger as they were, an expired ticket of that id included, and
\* the request returns at that step.
C30_RejectedConfirmChangesNothing ==
    [][\A r \in InFlight :
         /\ r.op = "delete"
         /\ Leaves(r)
         /\ resp' = Outcome("delete", r.id, 400, "confirmation")
         => /\ NoSideEffect
            /\ reqs' = reqs (-) SetToBag({r})
      ]_vars

\* a confirm call for node 1 was rejected on an expired ticket, and the
\* ticket, the record, the directory and the container are still there
C30_Witness ==
    /\ resp = Outcome("delete", 1, 400, "confirmation")
    /\ 1 \in DOMAIN ledger
    /\ ~has_made_request(ledger, 1, now)
    /\ 1 \in IdsOf(bees) /\ 1 \in dirs /\ 1 \in containers

\* C31: a request_bee_deletion or delete_bee call that arrives for an id
\* with no record is answered by its find_bee: it never reaches the ledger
\* lock, it is answered 404 (500 when the store does not answer) and never
\* 400, and the registry, the directories, the containers and the ledger
\* are as they were.
C31_ExistenceBeforeTicket ==
    [][\A op \in {"request_deletion", "delete"} :
         \A bee_id \in ReqIds \ IdsOf(bees) :
           /\ ~Enters(Req(op, "lock", bee_id, <<>>))
           /\ (reqs' = reqs /\ resp'.op = op /\ resp'.id = bee_id)
                => /\ resp' \in {Outcome(op, bee_id, 404, "not_found"),
                                 Outcome(op, bee_id, 500, "upstream")}
                   /\ NoSideEffect
      ]_vars

\* a confirm call for node 1 is answered 404 after the delete of node 1:
\* the record, the directory and the ticket are gone (the container, which
\* no delete removes, is still there)
C31_Witness ==
    /\ resp = Outcome("delete", 1, 404, "not_found")
    /\ bees = <<>>
    /\ 1 \notin dirs /\ 1 \in containers
    /\ 1 \notin DOMAIN ledger

\* C32: the ledger never holds a live ticket (younger than the window) for
\* an id whose record was deleted after the existence check of the request
\* that wrote the ticket: every live ticket is the ticket of a node that
\* has its record, so that no node provisioned later under the id can be
\* deleted on it.
C32_TicketOnlyForItsNode ==
    \A bee_id \in DOMAIN ledger :
       has_made_request(ledger, bee_id, now) => bee_id \in IdsOf(bees)

\* the delete requests of node bee_id in flight
DeletesInFlight(bee_id) == {r \in InFlight : r.op = "delete" /\ r.id = bee_id}

\* C33: every registered node stays deletable: in every reachable state,
\* for every record with no delete of its id in flight (an earlier attempt
\* may have failed or been dropped), a request followed within the window
\* by a confirm that meets no fault of the file system or of the store
\* succeeds and removes the record.
C33_RegisteredNodeStaysDeletable ==
    \A bee_id \in IdsOf(bees) :
       DeletesInFlight(bee_id) = {}
         => LET deleted == delete_bee(dirs, bees, bee_id)
            IN  /\ deleted.ok
                /\ Len(deleted.bees) < Len(bees)

\* the calls of create_bee that follow a successful create_dir_all
AfterCreateDirAll == {"set_permissions", "create_bee_container", "save_bee", "add_bee"}

\* the create requests of node bee_id whose create_dir_all returned success
DirCreators(bee_id) ==
    BagCardinality([r \in {x \in InFlight : /\ x.op = "create"
                                            /\ x.id = bee_id
                                            /\ x.pc \in AfterCreateDirAll}
                      |-> reqs[r]])

\* C34: of the create requests in flight that have allocated the same id,
\* at most one is past the creation of the node directory (its existence
\* test and its create_dir_all both succeeded): the others failed with the
\* already-exists error, so at most one goes on to the container and to
\* the record.
C34_DirectoryCreationExcludes ==
    \A bee_id \in 1..IdRangeEnd : DirCreators(bee_id) <= 1

\* the delete requests that hold the ledger mutex: past the ticket check
LockHolders ==
    {r \in InFlight : r.op = "delete" /\ r.pc \in {"remove_dir_all", "db_delete"}}

\* the number of requests that hold the ledger mutex
LockHolderCount == BagCardinality([r \in LockHolders |-> reqs[r]])

\* C35: at most one delete workflow is past its ticket check at a time;
\* while it is, the ledger changes only by its own removal of its ticket
\* as it returns success, and no request waiting for the ledger goes past
\* its lock (it can only be dropped); and a delete that returns success has
\* removed the ticket it ran on.
C35_DeletesSerialized ==
    [][/\ LockHolderCount' <= 1
       /\ \A h \in LockHolders :
            /\ ledger' # ledger
                 => /\ resp' = Outcome("delete", h.id, 200, "none")
                    /\ reqs' = reqs (-) SetToBag({h})
                    /\ ledger' = ledger_remove(ledger, h.id)
            /\ \A r \in InFlight : r.pc = "lock" /\ Leaves(r) => Dropped(r)
       /\ \A bee_id \in ReqIds :
            resp' = Outcome("delete", bee_id, 200, "none")
              => bee_id \notin DOMAIN ledger'
      ]_vars

\* a delete is past its ticket check while another delete of the same node
\* waits for the ledger
C35_Witness ==
    /\ LockHolderCount = 1
    /\ \E h \in LockHolders : Req("delete", "lock", h.id, <<>>) \in InFlight

\* the provisioning and the delete requests of node bee_id in flight
WorkflowsInFlight(bee_id) ==
    {r \in InFlight : r.op \in {"create", "delete"} /\ r.id = bee_id}

\* C36: in every reachable state, a record whose id has no provisioning and
\* no delete in flight has its node directory, and its data_dir is the
\* path get_node_path gives for its id.
C36_RecordHasDirectory ==
    \A i \in 1..Len(bees) :
       WorkflowsInFlight(bees[i].id) = {}
         => /\ bees[i].id \in dirs
            /\ bees[i].data_dir = get_node_path(bees[i].id)

\* path is under the directory dir, or is dir itself
IsUnder(dir, path) == Len(dir) <= Len(path) /\ SubSeq(path, 1, Len(dir)) = dir

\* the ledger led without the ticket of bee_id
OtherTickets(led, bee_id) == [k \in DOMAIN led \ {bee_id} |-> led[k]]

\* C37: the steps of a confirmed delete of node k (from its ticket check to
\* its return) leave every record of another id, the directory of every
\* other node and the ticket of every other id as they were; the path the
\* delete removes holds neither the parent directory nor the directory of
\* another node; and when the directory removal fails or is dropped, the
\* records, the directories and the ledger are all as they were.
C37_DeleteTouchesOnlyItsNode ==
    [][\A h \in LockHolders :
         Leaves(h)
         => /\ \A i \in 1..Len(bees) :
                 bees[i].id # h.id => CountOf(bees[i], bees') = CountOf(bees[i], bees)
            /\ \A j \in 1..Len(bees') : CountOf(bees'[j], bees) > 0
            /\ dirs' \ {h.id} = dirs \ {h.id}
            /\ OtherTickets(ledger', h.id) = OtherTickets(ledger, h.id)
            /\ ~IsUnder(get_node_path(h.id), get_parent_path(h.id))
            /\ \A other \in ReqIds \ {h.id} :
                 ~IsUnder(get_node_path(h.id), get_node_path(other))
            /\ (h.pc = "remove_dir_all" /\ reqs' = reqs (-) SetToBag({h}))
                 => bees' = bees /\ dirs' = dirs /\ ledger' = ledger
      ]_vars

\* node 1 was deleted while node 2 has its record, its directory and its
\* ticket
C37_Witness ==
    /\ resp = Outcome("delete", 1, 200, "none")
    /\ 2 \in IdsOf(bees) /\ 2 \in dirs /\ 2 \in DOMAIN ledger

\* request r can take its next step: it is in a call, or the lock it waits
\* for is free
Runnable(r) == r.pc = "call" \/ Blockers(r) = {}

\* no request waits for a lock whose holder waits in turn
NoCyclicWait == \A r \in InFlight : Runnable(r) \/ \A h \in Blockers(r) : Runnable(h)

\* C38: under every interleaving of the create, get, list, request-deletion,
\* confirm-delete and recreate handlers no request waits for a lock whose
\* holder is itself waiting (the holder of a lock can always take its next
\* step, so there is no cyclic wait), and every step of a handler takes the
\* lock of its next call or leaves it with fewer calls to make: a handler
\* whose calls return terminates.
C38_NoDeadlock ==
    [][/\ NoCyclicWait'
       /\ \A r \in InFlight :
            Leaves(r)
            => \/ reqs' = reqs (-) SetToBag({r})
               \/ /\ r.pc = "wait"
                  /\ reqs' = (reqs (-) SetToBag({r})) (+)
                               SetToBag({Req(r.op, "call", r.id, r.todo)})
               \/ /\ r.pc = "call"
                  /\ reqs' = (reqs (-) SetToBag({r})) (+)
                               SetToBag({Req(r.op, "wait", r.id, Tail(r.todo))})
      ]_vars

\* a request waits for the ledger while the delete that holds it is about
\* to take the registry lock
C38_Witness ==
    \E r \in InFlight :
       /\ ~Runnable(r)
       /\ \E h \in Blockers(r) : h.op = "delete" /\ h.pc = "wait"

\* C39: every call of get_dir_id the handlers make is given a node id in
\* 1..99 and a capacity of at least 1, returns (it neither underflows nor
\* divides by zero), and returns an index in 1..99, which format_id writes
\* with two digits.
C39_GetDirIdCallsInRange ==
    resp.op = "get_dir_id"
      => /\ resp.id \in 1..99
         /\ resp.capacity >= 1
         /\ resp.dir_id.ok
         /\ resp.dir_id.val \in 1..99
         /\ Len(format_id(resp.dir_id.val)) = 2

====
